---- MODULE Spec2Model ----
(***************************************************************************)
(* Model of ResumeTemplateGenerator (src/resume_template_generator.py):    *)
(* the worksheet (cells, merged ranges), the row offset, and the six fill  *)
(* stages of generate, one action per stage.                               *)
(*                                                                         *)
(* Text is a sequence of tokens.  A token is one ASCII character, or an    *)
(* ASCII name standing for a Chinese character or word of the source:      *)
(*   "[TBD]"   the placeholder "【待补充】"                                  *)
(*   "NIAN" "YUE" "RI"       年 月 日                                        *)
(*   "BENKE" "SHUOSHI" "BOSHI"   本科 硕士 博士                               *)
(*   "YES" "NO"              是 否                                           *)
(*   "DUN"                   the list delimiter "、"                         *)
(***************************************************************************)
EXTENDS Integers, Sequences, FiniteSets, TLC

VARIABLES cells, merged_cells, row_offset, raised, saved, pc, resume_data,
          call, entry, outcome, batch

\* cells, merged_cells: the worksheet; row_offset, raised, saved: the
\* generator and its run; pc: the position in the run; resume_data: the
\* record composed; call: the arguments and result of a function called on
\* its own; entry, outcome: the entry point a record came through and what
\* it reported; batch: the records of a batch run
vars ==
    <<cells, merged_cells, row_offset, raised, saved, pc, resume_data,
      call, entry, outcome, batch>>

(***************************************************************************)
(* Bounds of the model.                                                    *)
(***************************************************************************)
\* the longest work-history / project-history list of a record
MaxItems == 5
\* the number of value rotations the records are drawn with
NShift == 3
\* worksheet columns modelled (the template's table is 6 columns wide)
NumCols == 6

(***************************************************************************)
(* Python values: None, a missing dict key, str, bool, int, list of str.   *)
(***************************************************************************)
None == [t |-> "None", s |-> <<>>, b |-> FALSE, l |-> <<>>]
Missing == [t |-> "Missing", s |-> <<>>, b |-> FALSE, l |-> <<>>]
Str(x) == [t |-> "str", s |-> x, b |-> FALSE, l |-> <<>>]
Bool(x) == [t |-> "bool", s |-> <<>>, b |-> x, l |-> <<>>]
List(x) == [t |-> "list", s |-> <<>>, b |-> FALSE, l |-> x]
\* an int, by its decimal digits
Number(x) == [t |-> "int", s |-> x, b |-> FALSE, l |-> <<>>]

\* dict.get(key): a missing key reads as None
Get(d, k) == IF d[k] = Missing THEN None ELSE d[k]

\* Python truthiness of a value
Truthy(v) ==
    CASE v.t = "str" -> v.s # <<>>
      [] v.t = "bool" -> v.b
      [] v.t = "list" -> v.l # <<>>
      [] v.t = "int" -> v.s # <<"0">>
      [] OTHER -> FALSE

\* HIGHLIGHT cell text written for a null value
PLACEHOLDER == Str(<<"[TBD]">>)

Digits == {"0", "1", "2", "3", "4", "5", "6", "7", "8", "9"}

IsDigits(x) == \A i \in 1..Len(x) : x[i] \in Digits

RECURSIVE LStrip(_)
LStrip(x) == IF x # <<>> /\ Head(x) = " " THEN LStrip(Tail(x)) ELSE x

RECURSIVE RStrip(_)
RStrip(x) ==
    IF x # <<>> /\ x[Len(x)] = " " THEN RStrip(SubSeq(x, 1, Len(x) - 1)) ELSE x

\* variant: lstrip() only
Strip_left_only(x) == LStrip(x)

\* str.strip()
Strip(x) == RStrip(LStrip(x))

\* variant: no padding
ZFill2_unpadded(x) == x

\* str.zfill(2) of one or two digits
ZFill2(x) == IF Len(x) < 2 THEN <<"0">> \o x ELSE x

\* ^(\d{4})NIAN(\d{1,2})YUE(\d{1,2})RI?$ : the <<month length, day length, RI>>
\* of the match, or the empty set
MatchYMD(x) ==
    {p \in (1..2) \X (1..2) \X (0..1) :
        /\ Len(x) = 4 + 1 + p[1] + 1 + p[2] + p[3]
        /\ IsDigits(SubSeq(x, 1, 4))
        /\ x[5] = "NIAN"
        /\ IsDigits(SubSeq(x, 6, 5 + p[1]))
        /\ x[6 + p[1]] = "YUE"
        /\ IsDigits(SubSeq(x, 7 + p[1], 6 + p[1] + p[2]))
        /\ (p[3] = 1 => x[Len(x)] = "RI")}

\* ^(\d{4})NIAN(\d{1,2})YUE$ : the month lengths of the match
MatchYM(x) ==
    {m \in 1..2 :
        /\ Len(x) = 4 + 1 + m + 1
        /\ IsDigits(SubSeq(x, 1, 4))
        /\ x[5] = "NIAN"
        /\ IsDigits(SubSeq(x, 6, 5 + m))
        /\ x[6 + m] = "YUE"}

\* _format_date on the stripped, non-blank text x
FormatStripped(x) ==
    IF /\ Len(x) = 10 /\ IsDigits(SubSeq(x, 1, 4)) /\ x[5] = "-"
       /\ IsDigits(SubSeq(x, 6, 7)) /\ x[8] = "-" /\ IsDigits(SubSeq(x, 9, 10))
    THEN x
    ELSE IF /\ Len(x) = 7 /\ IsDigits(SubSeq(x, 1, 4)) /\ x[5] = "-"
            /\ IsDigits(SubSeq(x, 6, 7))
    THEN x \o <<"-", "0", "1">>
    ELSE IF /\ Len(x) = 6 /\ IsDigits(SubSeq(x, 1, 4)) /\ x[5] = "-"
            /\ IsDigits(SubSeq(x, 6, 6))
    THEN SubSeq(x, 1, 4) \o <<"-", "0">> \o SubSeq(x, 6, 6) \o <<"-", "0", "1">>
    ELSE IF Len(x) = 4 /\ IsDigits(x)
    THEN x \o <<"-", "0", "1", "-", "0", "1">>
    ELSE IF MatchYMD(x) # {}
    THEN LET p == CHOOSE q \in MatchYMD(x) : TRUE
         IN  SubSeq(x, 1, 4) \o <<"-">> \o ZFill2(SubSeq(x, 6, 5 + p[1]))
                \o <<"-">> \o ZFill2(SubSeq(x, 7 + p[1], 6 + p[1] + p[2]))
    ELSE IF MatchYM(x) # {}
    THEN LET m == CHOOSE q \in MatchYM(x) : TRUE
         IN  SubSeq(x, 1, 4) \o <<"-">> \o ZFill2(SubSeq(x, 6, 5 + m))
                \o <<"-", "0", "1">>
    ELSE x

\* ResumeTemplateGenerator._format_date: None for a null, empty or blank
\* text, else the stripped text in canonical form (or as it is)
_format_date(v) ==
    IF ~Truthy(v) \/ Strip(v.s) = <<>> THEN None ELSE Str(FormatStripped(Strip(v.s)))

(***************************************************************************)
(* The worksheet: cells and merged ranges, as openpyxl keeps them.         *)
(* A cell is a Cell, a MergedCell (the non-anchor cells of a merged range, *)
(* whose value cannot be set), or absent (never created).  A style         *)
(* attribute is named by where it comes from: DefaultAttr, the template    *)
(* cell <<row, col>> it was authored on, or the highlight constants.       *)
(***************************************************************************)
DefaultAttr == <<0, 0>>
\* PatternFill FFFF00 solid; Font FF0000 bold
HIGHLIGHT_FILL == <<-1, 1>>
HIGHLIGHT_FONT == <<-1, 2>>

Cols == 1..NumCols

NoCell ==
    [kind |-> "absent", value |-> None,
     fill |-> DefaultAttr, font |-> DefaultAttr, rest |-> DefaultAttr]

NewCell == [NoCell EXCEPT !.kind = "cell"]

NewMergedCell == [NoCell EXCEPT !.kind = "merged"]

\* Cell.has_style
has_style(cell) ==
    cell.fill # DefaultAttr \/ cell.font # DefaultAttr \/ cell.rest # DefaultAttr

\* the state after a run of statements, each evaluated before the next
InOrder(states) == states[Len(states)]

Rect(r0, c0, r1, c1) == [r0 |-> r0, c0 |-> c0, r1 |-> r1, c1 |-> c1]

InRect(m, r, c) == m.r0 <= r /\ r <= m.r1 /\ m.c0 <= c /\ c <= m.c1

\* the cells of a range in row-major order, without its first (anchor) cell
RestOfRange(m) ==
    LET w == m.c1 - m.c0 + 1
        n == (m.r1 - m.r0 + 1) * w
    IN  [i \in 1..(n - 1) |-> <<m.r0 + (i \div w), m.c0 + (i % w)>>]

\* Worksheet.cell(row, column): the cell is created when it does not exist
ws_cell(w, r, c) ==
    IF w.cells[r][c].kind = "absent" THEN [w EXCEPT !.cells[r][c] = NewCell] ELSE w

\* cell.value = v.  A MergedCell's value is read-only: AttributeError.
\* Nothing runs once an exception is propagating.
set_value(w, r, c, v) ==
    IF w.raised THEN w
    ELSE LET w1 == ws_cell(w, r, c)
         IN  IF w1.cells[r][c].kind = "merged"
             THEN [w1 EXCEPT !.raised = TRUE]
             ELSE [w1 EXCEPT !.cells[r][c].value = v]

\* the value a cell reads as
get_value(w, r, c) == w.cells[r][c].value

\* cell.fill = HIGHLIGHT_FILL; cell.font = HIGHLIGHT_FONT
set_highlight(w, r, c) ==
    IF w.raised THEN w
    ELSE [ws_cell(w, r, c) EXCEPT !.cells[r][c].fill = HIGHLIGHT_FILL,
                                  !.cells[r][c].font = HIGHLIGHT_FONT]

\* variant of insert_rows: no row moves
insert_rows_none(w, idx, amount) == w

\* Worksheet.insert_rows(idx, amount): every cell at row >= idx moves down
\* by amount; the merged ranges are not touched.
insert_rows(w, idx, amount) ==
    IF w.raised THEN w
    ELSE [w EXCEPT !.cells =
            [r \in DOMAIN w.cells |->
                IF r < idx THEN w.cells[r]
                ELSE IF r < idx + amount THEN [c \in Cols |-> NoCell]
                ELSE w.cells[r - amount]]]

\* Worksheet.merge_cells: the range is added unless a merged range already
\* covers it; the anchor cell is created, every other cell of the range is
\* replaced by a MergedCell.
merge_cells(w, m) ==
    IF w.raised THEN w
    ELSE LET w1 == ws_cell(w, m.r0, m.c0)
         IN  [w1 EXCEPT
                !.merged =
                    IF \E k \in w1.merged :
                           InRect(k, m.r0, m.c0) /\ InRect(k, m.r1, m.c1)
                    THEN @ ELSE @ \cup {m},
                !.cells =
                    [r \in DOMAIN w1.cells |-> [c \in Cols |->
                        IF InRect(m, r, c) /\ <<r, c>> # <<m.r0, m.c0>>
                        THEN NewMergedCell ELSE w1.cells[r][c]]]]

\* the deletions of unmerge_cells: cell after cell, until one does not exist
\* (KeyError)
RECURSIVE DeleteCells(_, _, _)
DeleteCells(cs, todo, i) ==
    IF i > Len(todo) THEN cs
    ELSE LET r == todo[i][1]
             c == todo[i][2]
         IN  IF cs[r][c].kind = "absent" THEN cs
             ELSE DeleteCells([cs EXCEPT ![r][c] = NoCell], todo, i + 1)

\* variant: nothing is unmerged
unmerge_cells_skipped(w, m) == w

\* try: Worksheet.unmerge_cells(range) except: pass.  ValueError when the
\* range is not merged; else the range is removed and its cells, the anchor
\* excepted, are deleted.
unmerge_cells(w, m) ==
    IF w.raised \/ m \notin w.merged THEN w
    ELSE [w EXCEPT !.merged = @ \ {m},
                   !.cells = DeleteCells(@, RestOfRange(m), 1)]

\* for merged_range in ranges: try: unmerge_cells(...) except: pass
RECURSIVE unmerge_all(_, _)
unmerge_all(w, ranges) ==
    IF ranges = {} THEN w
    ELSE LET m == CHOOSE k \in ranges : TRUE
             w1 == unmerge_cells(w, m)
         IN  InOrder(<<w1, unmerge_all(w1, ranges \ {m})>>)

(***************************************************************************)
(* ResumeTemplateGenerator.  w is the generator's state:                   *)
(* [cells, merged, row_offset, raised].                                    *)
(***************************************************************************)
\* variant of _get_actual_row: the anchor as the template has it, whatever
\* was inserted since
_get_actual_row_stale(w, base_row) == base_row

_get_actual_row(w, base_row) == base_row + w.row_offset

\* "DUN".join(str(v) for v in value)
RECURSIVE Join(_)
Join(l) ==
    IF l = <<>> THEN <<>>
    ELSE IF Len(l) = 1 THEN l[1]
    ELSE l[1] \o <<"DUN">> \o Join(Tail(l))

\* the text _fill_cell writes for a value that is not null or empty
cell_text(value) ==
    CASE value.t = "list" -> Str(Join(value.l))
      [] value.t = "bool" -> Str(IF value.b THEN <<"YES">> ELSE <<"NO">>)
      [] value.t = "int" -> Str(value.s)
      [] OTHER -> value

\* variant of is_null_value: only None counts as null
is_null_value_none_only(value) == value.t = "None"

\* value is None or value == "" or value == []
is_null_value(value) ==
    value.t = "None" \/ value = Str(<<>>) \/ value = List(<<>>)

_fill_cell(w, row, col, value, is_date) ==
    LET actual_row == _get_actual_row(w, row)
        v == IF is_date /\ Truthy(value) THEN _format_date(value) ELSE value
        w1 == set_value(w, actual_row, col, PLACEHOLDER)
    IN  IF is_null_value(v)
        THEN InOrder(<<w1, set_highlight(w1, actual_row, col)>>)
        ELSE set_value(w, actual_row, col, cell_text(v))

\* one row of cells, each created when it does not exist
touched_row(row) ==
    [c \in Cols |-> IF row[c].kind = "absent" THEN NewCell ELSE row[c]]

_copy_row_style(w, source_row, target_row) ==
    IF w.raised THEN w
    ELSE LET src == touched_row(w.cells[source_row])
             tgt == touched_row(w.cells[target_row])
             w1 == [w EXCEPT !.cells[source_row] = src]
         IN  IF source_row = target_row THEN w1
             ELSE [w1 EXCEPT !.cells[target_row] =
                    [c \in Cols |->
                        IF has_style(src[c])
                        THEN [tgt[c] EXCEPT !.fill = src[c].fill,
                                            !.font = src[c].font,
                                            !.rest = src[c].rest]
                        ELSE tgt[c]]]

\* for i in range(n): self._copy_row_style(source_row(i), first_target + i)
RECURSIVE copy_styles(_, _, _, _, _)
copy_styles(w, source_base, step, first_target, n) ==
    IF n = 0 THEN w
    ELSE LET w1 == copy_styles(w, source_base, step, first_target, n - 1)
         IN  InOrder(<<w1, _copy_row_style(w1, source_base + step * (n - 1),
                                           first_target + (n - 1))>>)

\* raise: the exception leaves generate
raise(w) == [w EXCEPT !.raised = TRUE]

\* data.get(key, {}): the dict to read fields from, when there is one
EmptyDict == [k \in {} |-> Missing]

\* d.get(key) of a dict with possibly no such key
get(d, k) == IF k \in DOMAIN d THEN Get(d, k) ELSE None

\* data.get(key, {}): the empty dict for a missing key
sub_dict(v) == IF v.t = "Missing" THEN EmptyDict ELSE v.d

fill_basic_info(w, data) ==
    IF data.basic_info.t = "None" THEN raise(w)
    ELSE LET basic_info == sub_dict(data.basic_info)
             w1 == _fill_cell(w, 3, 2, get(basic_info, "name"), FALSE)
         IN  InOrder(<<w1, _fill_cell(w1, 3, 4, get(basic_info, "supplier"), FALSE)>>)

fill_personal_info(w, data) ==
    IF data.personal_info.t = "None" THEN raise(w)
    ELSE LET personal == sub_dict(data.personal_info)
             w1 == _fill_cell(w, 5, 2, get(personal, "id_card_number"), FALSE)
             w2 == _fill_cell(w1, 7, 2, get(personal, "birth_date"), TRUE)
             w3 == _fill_cell(w2, 8, 2, get(personal, "phone"), FALSE)
             w4 == _fill_cell(w3, 9, 2, get(personal, "first_work_date"), TRUE)
             w5 == _fill_cell(w4, 10, 2, get(personal, "first_it_work_date"), TRUE)
             w6 == _fill_cell(w5, 11, 2, get(personal, "highest_education"), FALSE)
             w7 == _fill_cell(w6, 12, 2, get(personal, "contract_level"), FALSE)
         IN  InOrder(<<w1, w2, w3, w4, w5, w6, w7>>)

\* the eight fields of an education block: <<row in the block, column,
\* key, is_date>>; the block's title is row 0
EduFields ==
    << <<1, 2, "enrollment_date", TRUE>>,
       <<1, 4, "university", FALSE>>,
       <<2, 2, "graduation_date", TRUE>>,
       <<2, 4, "major", FALSE>>,
       <<3, 2, "diploma_number", FALSE>>,
       <<4, 2, "diploma_verification_code", FALSE>>,
       <<6, 2, "degree_number", FALSE>>,
       <<7, 2, "degree_verification_code", FALSE>> >>

\* the eight _fill_cell calls of an education block whose title row is base
RECURSIVE fill_edu_fields(_, _, _, _)
fill_edu_fields(w, edu, base, n) ==
    IF n = 0 THEN w
    ELSE LET f == EduFields[n]
             w1 == fill_edu_fields(w, edu, base, n - 1)
         IN  InOrder(<<w1, _fill_cell(w1, base + f[1], f[2], get(edu, f[3]), f[4])>>)

\* variant: without an entry the block is left as it is
_fill_undergraduate_skipped(w, edu) ==
    IF edu = EmptyDict THEN w ELSE fill_edu_fields(w, edu, 13, Len(EduFields))

_fill_undergraduate(w, edu) == fill_edu_fields(w, edu, 13, Len(EduFields))

\* "BOSHI XUELI": the title of a doctoral block
DoctoralTitle == Str(<<"BOSHI", "XUELI">>)

\* variant: the title is never relabelled
_fill_graduate_title_kept(w, edu, degree_label) ==
    fill_edu_fields(w, edu, 22, Len(EduFields))

_fill_graduate(w, edu, degree_label) ==
    LET base_row == 22
        w1 == IF degree_label = "BOSHI"
              THEN set_value(w, _get_actual_row(w, base_row), 1, DoctoralTitle)
              ELSE w
    IN  InOrder(<<w1, fill_edu_fields(w1, edu, base_row, Len(EduFields))>>)

\* the height of the doctoral block
num_rows == 9

\* the example rows the template holds for a repeating section
template_rows == 2

\* the labels the doctoral block is given: <<row in the block, column, text>>
DoctoralLabels ==
    << <<1, 1, <<"RUXUE", "SHIJIAN">> >>,
       <<1, 3, <<"BIYE", "YUANXIAO">> >>,
       <<2, 1, <<"BIYE", "SHIJIAN">> >>,
       <<2, 3, <<"ZHUANYE">> >>,
       <<3, 1, <<"BIYEZHENG", "BIANHAO">> >>,
       <<4, 1, <<"BIYEZHENG", "YANZHENGMA">> >>,
       <<6, 1, <<"XUEWEIZHENG", "BIANHAO">> >>,
       <<7, 1, <<"XUEWEIZHENG", "YANZHENGMA">> >> >>

\* the labels of the work-history header row, columns 1 to 5
WorkHeaderLabels ==
    << <<"GONGZUO", "KAISHI", "RIQI">>,
       <<"GONGZUO", "JIESHU", "RIQI">>,
       <<"DANWEI", "MINGCHENG">>,
       <<"GANGWEI", "ZHIWU">>,
       <<"SHIFOU", "YOUCHU", "ZIZHU", "YANFA">> >>

RECURSIVE write_labels(_, _, _, _)
write_labels(w, labels, base, n) ==
    IF n = 0 THEN w
    ELSE LET w1 == write_labels(w, labels, base, n - 1)
         IN  InOrder(<<w1, set_value(w1, base + labels[n][1], labels[n][2],
                                     Str(labels[n][3]))>>)

\* the doctoral block's data loop: a null or empty value gives the
\* placeholder and the highlight, any other value is written as it is
doctoral_write(w, row, col, value) ==
    LET w1 == set_value(w, row, col, PLACEHOLDER)
    IN  IF value.t = "None" \/ value = Str(<<>>)
        THEN InOrder(<<w1, set_highlight(w1, row, col)>>)
        ELSE set_value(w, row, col, value)

RECURSIVE doctoral_fill(_, _, _, _)
doctoral_fill(w, edu, insert_row, n) ==
    IF n = 0 THEN w
    ELSE LET f == EduFields[n]
             raw == get(edu, f[3])
             value == IF f[4] THEN _format_date(raw) ELSE raw
             w1 == doctoral_fill(w, edu, insert_row, n - 1)
         IN  InOrder(<<w1, doctoral_write(w1, insert_row + f[1], f[2], value)>>)

\* the rows of the graduate block whose styles the doctoral block copies
doctoral_style_source == 22

\* variant of doctoral_insert_row: the block goes in one row higher, before
\* the separator row under the graduate block
doctoral_insert_row_above(w) == _get_actual_row(w, 30)

\* the row the doctoral block is inserted at: before the work history
doctoral_insert_row(w) == _get_actual_row(w, 31)

_insert_doctoral_section(w, edu) ==
    LET insert_row == doctoral_insert_row(w)
        work_exp_new_start == insert_row + num_rows
        work_exp_header_row == work_exp_new_start + 1
        w1 == [insert_rows(w, insert_row, num_rows)
                 EXCEPT !.row_offset = @ + num_rows]
        merged_to_fix ==
            {m \in w1.merged :
                m.r0 = work_exp_header_row /\ m.c0 = 1 /\ m.c1 >= 3}
        w2 == unmerge_all(w1, merged_to_fix)
        w3 == merge_cells(w2, Rect(work_exp_header_row, 5, work_exp_header_row, 6))
        w4 == write_labels(w3,
                [c \in 1..5 |-> <<0, c, WorkHeaderLabels[c]>>],
                work_exp_header_row, 5)
        w5 == copy_styles(w4, doctoral_style_source, 1, insert_row, num_rows)
        w6 == merge_cells(w5, Rect(insert_row, 1, insert_row, 6))
        w7 == set_value(w6, insert_row, 1, DoctoralTitle)
        w8 == write_labels(w7, DoctoralLabels, insert_row, Len(DoctoralLabels))
        w9 == doctoral_fill(w8, edu, insert_row, Len(EduFields))
    IN  InOrder(<<w1, w2, w3, w4, w5, w6, w7, w8, w9>>)

\* "X" in degree_type
Contains(tok, text) == \E i \in 1..Len(text) : text[i] = tok

\* edu.get("degree_type", "")
degree_type(edu) ==
    IF "degree_type" \notin DOMAIN edu \/ edu["degree_type"] = Missing
    THEN Str(<<>>) ELSE edu["degree_type"]

\* the branch of the classification loop an entry takes
tier_of(edu) ==
    LET dt == degree_type(edu).s
    IN  IF Contains("BENKE", dt) THEN "undergraduate"
        ELSE IF Contains("SHUOSHI", dt) THEN "master"
        ELSE IF Contains("BOSHI", dt) THEN "doctoral"
        ELSE "none"

\* the entry the loop leaves in a tier's variable: the last one of the tier
\* (0: the variable stays None)
last_of(education_list, tier) ==
    LET hits == {i \in 1..Len(education_list) : tier_of(education_list[i]) = tier}
    IN  IF hits = {} THEN 0 ELSE CHOOSE i \in hits : \A j \in hits : j <= i

\* variant of needs_doctoral_section: any doctoral entry gets its own block
needs_doctoral_section_any(master, doctoral) == doctoral # 0

\* if doctoral and master: insert the doctoral block
needs_doctoral_section(master, doctoral) == master # 0 /\ doctoral # 0

fill_education(w, data) ==
    IF data.education.t = "None" THEN raise(w)
    ELSE LET education_list == data.education.l
         IN  IF \E i \in 1..Len(education_list) :
                    degree_type(education_list[i]).t # "str"
             THEN raise(w)
             ELSE
             LET undergraduate == last_of(education_list, "undergraduate")
                 master == last_of(education_list, "master")
                 doctoral == last_of(education_list, "doctoral")
                 w1 == IF undergraduate # 0
                       THEN _fill_undergraduate(w, education_list[undergraduate])
                       ELSE _fill_undergraduate(w, EmptyDict)
                 w2 == IF master # 0
                       THEN _fill_graduate(w1, education_list[master], "SHUOSHI")
                       ELSE IF doctoral # 0
                       THEN _fill_graduate(w1, education_list[doctoral], "BOSHI")
                       ELSE w1
                 w3 == IF needs_doctoral_section(master, doctoral)
                       THEN _insert_doctoral_section(w2, education_list[doctoral])
                       ELSE w2
             IN  InOrder(<<w1, w2, w3>>)

\* variant of or_placeholder: a falsy value is written as the empty string
or_placeholder_empty(v) == IF Truthy(v) THEN v ELSE Str(<<>>)

\* x if x else the placeholder
or_placeholder(v) == IF Truthy(v) THEN v ELSE PLACEHOLDER

\* the placeholder if is_psbc is None, else YES or NO by its truth
psbc_text(v) ==
    IF v.t = "None" THEN PLACEHOLDER
    ELSE Str(IF Truthy(v) THEN <<"YES">> ELSE <<"NO">>)

\* for each written cell: if cell.value is the placeholder, highlight it
RECURSIVE highlight_placeholders(_, _, _)
highlight_placeholders(w, row, ncols) ==
    IF ncols = 0 \/ w.raised THEN w
    ELSE LET w1 == highlight_placeholders(w, row, ncols - 1)
             w2 == ws_cell(w1, row, ncols)
         IN  InOrder(<<w1, w2, IF get_value(w2, row, ncols) = PLACEHOLDER
                               THEN set_highlight(w2, row, ncols) ELSE w2>>)

\* the body of the work-history loop for one entry
work_row(w, row, exp) ==
    LET w1 == set_value(w, row, 1, or_placeholder(_format_date(get(exp, "start_date"))))
        w2 == set_value(w1, row, 2, or_placeholder(_format_date(get(exp, "end_date"))))
        w3 == set_value(w2, row, 3, or_placeholder(get(exp, "company")))
        w4 == set_value(w3, row, 4, or_placeholder(get(exp, "position")))
        w5 == set_value(w4, row, 5, psbc_text(get(exp, "is_psbc_independent_dev")))
    IN  InOrder(<<w1, w2, w3, w4, w5, highlight_placeholders(w5, row, 5)>>)

RECURSIVE work_rows(_, _, _, _)
work_rows(w, data_start_row, work_exp, n) ==
    IF n = 0 THEN w
    ELSE LET w1 == work_rows(w, data_start_row, work_exp, n - 1)
         IN  InOrder(<<w1, work_row(w1, data_start_row + (n - 1), work_exp[n])>>)

\* for col in range(1, 6): cell(row, col).value = None, for the rows first..last
RECURSIVE clear_rows(_, _, _, _)
clear_rows(w, first, last, ncols) ==
    IF first > last THEN w
    ELSE LET w0 == clear_rows(w, first, last - 1, ncols)
             clear_row[c \in 0..ncols] ==
                IF c = 0 THEN w0 ELSE set_value(clear_row[c - 1], last, c, None)
         IN  InOrder(<<w0, clear_row[ncols]>>)

\* variant of work_insert_position: extra rows go in above the example rows
work_insert_position_at_start(data_start_row) == data_start_row

\* where the extra rows of the work history are inserted
work_insert_position(data_start_row) == data_start_row + template_rows

\* the merged ranges the work history removes before it writes
work_ranges_to_remove(w, data_start_row, num_items) ==
    {m \in w.merged :
        /\ m.r0 >= data_start_row
        /\ m.r0 < data_start_row + num_items
        /\ m.c0 >= 2
        /\ m.c1 >= 3}

fill_work_experience(w, data) ==
    LET work_exp == data.work_experience.l
    IN  IF work_exp = <<>> THEN w
        ELSE
        LET data_start_row == _get_actual_row(w, 33)
            num_items == Len(work_exp)
            extra_rows == IF num_items > template_rows
                          THEN num_items - template_rows ELSE 0
            insert_position == work_insert_position(data_start_row)
            wi == insert_rows(w, insert_position, extra_rows)
            w1 == IF extra_rows > 0
                  THEN InOrder(<<wi,
                        [copy_styles(wi, data_start_row, 0, insert_position, extra_rows)
                            EXCEPT !.row_offset = @ + extra_rows]>>)
                  ELSE w
            w2 == unmerge_all(w1, work_ranges_to_remove(w1, data_start_row, num_items))
            w3 == work_rows(w2, data_start_row, work_exp, num_items)
            w4 == IF num_items < template_rows
                  THEN clear_rows(w3, data_start_row + num_items,
                                  data_start_row + template_rows - 1, 5)
                  ELSE w3
        IN  InOrder(<<w1, w2, w3, w4>>)

\* the body of the project-history loop for one entry
project_row(w, row, exp) ==
    LET w1 == set_value(w, row, 1, or_placeholder(_format_date(get(exp, "start_date"))))
        w2 == set_value(w1, row, 2, or_placeholder(_format_date(get(exp, "end_date"))))
        w3 == set_value(w2, row, 3, or_placeholder(get(exp, "project_name")))
        w4 == set_value(w3, row, 4, or_placeholder(get(exp, "description")))
        w5 == set_value(w4, row, 5, or_placeholder(get(exp, "role")))
        w6 == set_value(w5, row, 6, psbc_text(get(exp, "is_psbc_independent_dev")))
    IN  InOrder(<<w1, w2, w3, w4, w5, w6, highlight_placeholders(w6, row, 6)>>)

RECURSIVE project_rows(_, _, _, _)
project_rows(w, data_start_row, project_exp, n) ==
    IF n = 0 THEN w
    ELSE LET w1 == project_rows(w, data_start_row, project_exp, n - 1)
         IN  InOrder(<<w1, project_row(w1, data_start_row + (n - 1), project_exp[n])>>)

\* where the extra rows of the project history are inserted
project_insert_position(data_start_row) == data_start_row + template_rows

fill_project_experience(w, data) ==
    LET project_exp == data.project_experience.l
    IN  IF project_exp = <<>> THEN w
        ELSE
        LET data_start_row == _get_actual_row(w, 38)
            num_items == Len(project_exp)
            extra_rows == IF num_items > template_rows
                          THEN num_items - template_rows ELSE 0
            insert_position == project_insert_position(data_start_row)
            w0 == unmerge_all(w, {m \in w.merged : m.r0 >= insert_position})
            wi == insert_rows(w0, insert_position, extra_rows)
            w1 == IF extra_rows > 0
                  THEN InOrder(<<w0, wi,
                        [copy_styles(wi, data_start_row, 0, insert_position, extra_rows)
                            EXCEPT !.row_offset = @ + extra_rows]>>)
                  ELSE w
        IN  InOrder(<<w1, project_rows(w1, data_start_row, project_exp, num_items)>>)

fill_technical_skills(w, data) ==
    IF data.technical_skills.t = "None" THEN raise(w)
    ELSE LET skills == sub_dict(data.technical_skills)
             base_row == 41
             w1 == _fill_cell(w, base_row + 1, 2, get(skills, "programming_languages"), FALSE)
             w2 == _fill_cell(w1, base_row + 2, 2, get(skills, "skills"), FALSE)
             w3 == _fill_cell(w2, base_row + 3, 2, get(skills, "certifications"), FALSE)
         IN  InOrder(<<w1, w2, w3>>)

(***************************************************************************)
(* The template (Templates/template.xlsx), by the template contract: title *)
(* rows merged A:F, the work-history header and example rows merged E:F,   *)
(* the three skills values merged B:F, separator rows empty, every other   *)
(* cell holding its label or example text.                                 *)
(***************************************************************************)
TemplateRows == 44

MaxRow == TemplateRows + num_rows + 2 * MaxItems

Rows == 1..MaxRow

TemplateMerges ==
    {Rect(r, 1, r, 6) : r \in {22, 31, 36, 41}}
        \cup {Rect(r, 5, r, 6) : r \in {32, 33, 34}}
        \cup {Rect(r, 2, r, 6) : r \in {42, 43, 44}}

TemplateBlankRows == {18, 21, 27, 30, 35, 40}

TemplateValue(r, c) ==
    IF r \in TemplateBlankRows THEN None
    ELSE IF r = 32 /\ c <= 5 THEN Str(WorkHeaderLabels[c])
    ELSE Str(<<"T", ToString(r), ToString(c)>>)

TemplateCell(r, c) ==
    IF r > TemplateRows THEN NoCell
    ELSE [kind |-> IF \E m \in TemplateMerges :
                          InRect(m, r, c) /\ <<r, c>> # <<m.r0, m.c0>>
                   THEN "merged" ELSE "cell",
          value |-> IF \E m \in TemplateMerges :
                          InRect(m, r, c) /\ <<r, c>> # <<m.r0, m.c0>>
                    THEN None ELSE TemplateValue(r, c),
          fill |-> <<r, c>>, font |-> <<r, c>>, rest |-> <<r, c>>]

\* load_workbook(template_path).active
Template == [r \in Rows |-> [c \in Cols |-> TemplateCell(r, c)]]

(***************************************************************************)
(* The records composed.  A record's values rotate through the tables      *)
(* below, so every field takes a null, an empty and a present value.       *)
(***************************************************************************)
PlainVals == <<None, Str(<<>>), Str(<<"x">>), Missing>>

DateVals ==
    <<None, Str(<<"2", "0", "2", "1", "-", "3">>), Str(<<>>), Str(<<" ">>),
      Str(<<"2", "0", "1", "9", "NIAN", "7", "YUE", "5", "RI">>)>>

BoolVals == <<None, Bool(TRUE), Bool(FALSE)>>

ListVals == <<None, List(<<>>), List(<< <<"a">>, <<"b">> >>)>>

Pick(tbl, k) == tbl[(k % Len(tbl)) + 1]

DictOf(d) == [t |-> "dict", d |-> d]

ListOf(l) == [t |-> "list", l |-> l]

BasicInfo(k) == DictOf([name |-> Pick(PlainVals, k), supplier |-> Pick(PlainVals, k + 1)])

PersonalInfo(k) ==
    DictOf([id_card_number |-> Pick(PlainVals, k),
            birth_date |-> Pick(DateVals, k),
            phone |-> Pick(PlainVals, k + 1),
            first_work_date |-> Pick(DateVals, k + 1),
            first_it_work_date |-> Pick(DateVals, k + 2),
            highest_education |-> Pick(PlainVals, k + 2),
            contract_level |-> Pick(PlainVals, k + 3)])

EducationEntry(label, k) ==
    [degree_type |-> label,
     enrollment_date |-> Pick(DateVals, k),
     university |-> Pick(PlainVals, k),
     graduation_date |-> Pick(DateVals, k + 1),
     major |-> Pick(PlainVals, k + 1),
     diploma_number |-> Pick(PlainVals, k + 2),
     diploma_verification_code |-> Pick(PlainVals, k + 3),
     degree_number |-> Pick(PlainVals, k + 4),
     degree_verification_code |-> Pick(PlainVals, k + 5)]

WorkEntry(k) ==
    [start_date |-> Pick(DateVals, k),
     end_date |-> Pick(DateVals, k + 4),
     company |-> Pick(PlainVals, k),
     position |-> Pick(PlainVals, k + 1),
     is_psbc_independent_dev |-> Pick(BoolVals, k)]

ProjectEntry(k) ==
    [start_date |-> Pick(DateVals, k + 1),
     end_date |-> Pick(DateVals, k + 2),
     project_name |-> Pick(PlainVals, k),
     description |-> Pick(PlainVals, k + 1),
     role |-> Pick(PlainVals, k + 2),
     is_psbc_independent_dev |-> Pick(BoolVals, k + 1)]

Skills(k) ==
    DictOf([programming_languages |-> Pick(ListVals, k),
            skills |-> Pick(ListVals, k + 1),
            certifications |-> Pick(ListVals, k + 2)])

B == Str(<<"BENKE">>)
M == Str(<<"SHUOSHI">>)
D == Str(<<"BOSHI">>)
MD == Str(<<"SHUOSHI", "BOSHI">>)
DY == Str(<<"BOSHI", "YANJIUSHENG">>)
U == Str(<<"DAZHUAN">>)
E == Str(<<>>)

\* the degree labels of the education lists composed
EduShapes ==
    { <<>>, <<B>>, <<M>>, <<D>>, <<U>>, <<E>>, <<Missing>>, <<U, E>>,
      <<M, D>>, <<D, M>>, <<B, M, D>>, <<B, M>>, <<B, DY>>, <<MD>>,
      <<M, U, D>>, <<M, M>>, <<None>>, <<B, None>> }

\* doctoral entries rotate d further than the others
EducationList(shape, s, d) ==
    ListOf([i \in 1..Len(shape) |->
        EducationEntry(shape[i],
            s + i + (IF shape[i] \in {D, DY} THEN d ELSE 0))])

Record(s, d, shape, nw, np) ==
    [basic_info |-> BasicInfo(s),
     personal_info |-> PersonalInfo(s),
     education |-> EducationList(shape, s, d),
     work_experience |-> ListOf([i \in 1..nw |-> WorkEntry(s + i)]),
     project_experience |-> ListOf([i \in 1..np |-> ProjectEntry(s + i)]),
     technical_skills |-> Skills(s)]

FullRecords ==
    {Record(s, d, shape, nw, np) :
        s \in 0..(NShift - 1), d \in 0..(NShift - 1), shape \in EduShapes,
        nw \in 0..MaxItems, np \in 0..MaxItems}

SubRecords ==
    {"basic_info", "personal_info", "education", "work_experience",
     "project_experience", "technical_skills"}

\* records with one sub-record null or missing, and the record with none
SparseRecords ==
    {[Record(s, 0, <<B>>, 1, 1) EXCEPT ![k] = v] :
        s \in 0..(NShift - 1), k \in SubRecords, v \in {None, Missing}}
        \cup {[k \in SubRecords |-> Missing]}

Records == FullRecords \cup SparseRecords

(***************************************************************************)
(* generate: the six stages in order, then the save.                       *)
(***************************************************************************)
Generator ==
    [cells |-> cells, merged |-> merged_cells,
     row_offset |-> row_offset, raised |-> raised]

\* no function called on its own, no entry point, no batch
NoCall == [op |-> "none"]

Direct ==
    /\ call = NoCall
    /\ entry = "generate"
    /\ outcome = "pending"
    /\ batch = <<>>

\* ResumeTemplateGenerator(template_path) with the record to compose
Loaded ==
    /\ cells = Template
    /\ merged_cells = TemplateMerges
    /\ row_offset = 0
    /\ raised = FALSE
    /\ saved = FALSE

Init ==
    /\ Loaded
    /\ pc = "fill_basic_info"
    /\ resume_data \in Records
    /\ Direct

\* one stage of generate: the worksheet after it, and the next stage unless
\* an exception left generate
Stage(w, next) ==
    /\ cells' = w.cells
    /\ merged_cells' = w.merged
    /\ row_offset' = w.row_offset
    /\ raised' = w.raised
    /\ pc' = IF w.raised THEN "failed" ELSE next
    /\ UNCHANGED <<saved, resume_data, call, entry, outcome, batch>>

FillBasicInfo ==
    /\ pc = "fill_basic_info"
    /\ Stage(fill_basic_info(Generator, resume_data), "fill_personal_info")

FillPersonalInfo ==
    /\ pc = "fill_personal_info"
    /\ Stage(fill_personal_info(Generator, resume_data), "fill_education")

FillEducation ==
    /\ pc = "fill_education"
    /\ Stage(fill_education(Generator, resume_data), "fill_work_experience")

FillWorkExperience ==
    /\ pc = "fill_work_experience"
    /\ Stage(fill_work_experience(Generator, resume_data), "fill_project_experience")

FillProjectExperience ==
    /\ pc = "fill_project_experience"
    /\ Stage(fill_project_experience(Generator, resume_data), "fill_technical_skills")

FillTechnicalSkills ==
    /\ pc = "fill_technical_skills"
    /\ Stage(fill_technical_skills(Generator, resume_data), "save")

\* self.wb.save(output_path)
Save ==
    /\ pc = "save"
    /\ saved' = TRUE
    /\ pc' = "done"
    /\ UNCHANGED <<cells, merged_cells, row_offset, raised, resume_data,
                   call, entry, outcome, batch>>

Next ==
    \/ FillBasicInfo
    \/ FillPersonalInfo
    \/ FillEducation
    \/ FillWorkExperience
    \/ FillProjectExperience
    \/ FillTechnicalSkills
    \/ Save

Spec == Init /\ [][Next]_vars

(***************************************************************************)
(* What the record says, for the properties below.                         *)
(***************************************************************************)
education_list == resume_data.education.l
work_exp == resume_data.work_experience.l
project_exp == resume_data.project_experience.l

MasterIdx == last_of(education_list, "master")
DoctorateIdx == last_of(education_list, "doctoral")
BachelorIdx == last_of(education_list, "undergraduate")
HasMaster == MasterIdx # 0
HasDoctorate == DoctorateIdx # 0
HasBoth == HasMaster /\ HasDoctorate

Extra(n) == IF n > template_rows THEN n - template_rows ELSE 0

\* rows inserted by the education, work-history and project-history stages
EduOffset == IF HasBoth THEN num_rows ELSE 0
WorkOffset == Extra(Len(work_exp))
ProjectOffset == Extra(Len(project_exp))

\* first data row of each repeating section in the finished sheet
WorkStart == 33 + EduOffset
ProjectStart == 38 + EduOffset + WorkOffset

\* the fields of an education block whose title row is base
BlockFields(base, edu) ==
    {<<base + EduFields[n][1], EduFields[n][2], get(edu, EduFields[n][3]),
       EduFields[n][4]>> : n \in 1..Len(EduFields)}

WorkKeys == <<"start_date", "end_date", "company", "position", "is_psbc_independent_dev">>

ProjectKeys ==
    <<"start_date", "end_date", "project_name", "description", "role",
      "is_psbc_independent_dev">>

IsDateKey(k) == k \in {"start_date", "end_date"}

FixedFields ==
    LET b == sub_dict(resume_data.basic_info)
        p == sub_dict(resume_data.personal_info)
    IN  { <<3, 2, get(b, "name"), FALSE>>, <<3, 4, get(b, "supplier"), FALSE>>,
          <<5, 2, get(p, "id_card_number"), FALSE>>,
          <<7, 2, get(p, "birth_date"), TRUE>>,
          <<8, 2, get(p, "phone"), FALSE>>,
          <<9, 2, get(p, "first_work_date"), TRUE>>,
          <<10, 2, get(p, "first_it_work_date"), TRUE>>,
          <<11, 2, get(p, "highest_education"), FALSE>>,
          <<12, 2, get(p, "contract_level"), FALSE>> }

PrimaryFields ==
    BlockFields(13, IF BachelorIdx # 0 THEN education_list[BachelorIdx] ELSE EmptyDict)

AdvancedFields ==
    IF HasMaster THEN BlockFields(22, education_list[MasterIdx])
    ELSE IF HasDoctorate THEN BlockFields(22, education_list[DoctorateIdx])
    ELSE {}

DoctoralFields ==
    IF HasBoth THEN BlockFields(31, education_list[DoctorateIdx]) ELSE {}

WorkFields ==
    {<<WorkStart + i - 1, c, get(work_exp[i], WorkKeys[c]), IsDateKey(WorkKeys[c])>> :
        i \in 1..Len(work_exp), c \in 1..Len(WorkKeys)}

ProjectFields ==
    {<<ProjectStart + i - 1, c, get(project_exp[i], ProjectKeys[c]),
       IsDateKey(ProjectKeys[c])>> :
        i \in 1..Len(project_exp), c \in 1..Len(ProjectKeys)}

SkillsFields ==
    LET k == sub_dict(resume_data.technical_skills)
        row == 41 + EduOffset + WorkOffset + ProjectOffset
    IN  { <<row + 1, 2, get(k, "programming_languages"), FALSE>>,
          <<row + 2, 2, get(k, "skills"), FALSE>>,
          <<row + 3, 2, get(k, "certifications"), FALSE>> }

\* every field of the record with its data cell: <<row, col, value, is_date>>
FieldCells ==
    FixedFields \cup PrimaryFields \cup AdvancedFields \cup DoctoralFields
        \cup WorkFields \cup ProjectFields \cup SkillsFields

\* the source field is null, missing or empty
IsAbsent(v) == v.t = "None" \/ v = Str(<<>>) \/ v = List(<<>>)

\* the source field is present and non-empty (a date: not blank)
IsPresent(v, is_date) ==
    /\ ~IsAbsent(v)
    /\ (is_date => Strip(v.s) # <<>>)

Highlighted(cell) == cell.fill = HIGHLIGHT_FILL \/ cell.font = HIGHLIGHT_FONT

FullyHighlighted(cell) == cell.fill = HIGHLIGHT_FILL /\ cell.font = HIGHLIGHT_FONT

\* the text a present value shows as
Shown(v, is_date) == cell_text(IF is_date THEN _format_date(v) ELSE v)

\* what a field's data cell holds once written
Rendered(v, is_date) == IF IsPresent(v, is_date) THEN Shown(v, is_date) ELSE PLACEHOLDER

AfterEducation == pc = "fill_work_experience"

Finished == pc = "done"

(***************************************************************************)
(* C1: after generate, every data cell whose source field is present and   *)
(* non-empty carries neither the highlight fill nor the highlight font, in *)
(* the fixed fields, both education blocks, the inserted doctoral block    *)
(* and every work-history and project-history row.                         *)
(***************************************************************************)
PresentNeverHighlighted ==
    Finished =>
        \A f \in FieldCells :
            IsPresent(f[3], f[4]) => ~Highlighted(cells[f[1]][f[2]])

(***************************************************************************)
(* C2: after generate, every data cell whose source field is null, missing *)
(* or empty holds exactly the placeholder and carries the highlight fill   *)
(* and font: each field of each work-history row (5) and project-history   *)
(* row (6), the 8 fields of the doctoral block, and a null end_date.       *)
(***************************************************************************)
AbsentShowsPlaceholder ==
    Finished =>
        \A f \in FieldCells :
            IsAbsent(f[3]) =>
                /\ cells[f[1]][f[2]].value = PLACEHOLDER
                /\ FullyHighlighted(cells[f[1]][f[2]])

\* C2 happens: a finished sheet with a work entry whose end_date is null, a
\* project entry with an empty field and a doctoral block with an absent field
AbsentShowsPlaceholderSeen ==
    /\ Finished
    /\ \E i \in 1..Len(work_exp) :
          /\ get(work_exp[i], "end_date") = None
          /\ cells[WorkStart + i - 1][2].value = PLACEHOLDER
          /\ FullyHighlighted(cells[WorkStart + i - 1][2])
    /\ \E f \in ProjectFields : IsAbsent(f[3])
    /\ \E f \in DoctoralFields :
          IsAbsent(f[3]) /\ FullyHighlighted(cells[f[1]][f[2]])

(***************************************************************************)
(* C3: with a Master and a Doctorate entry, after fill_education rows      *)
(* 22-29 hold the Master's data, the 9 rows from row 31 hold the doctoral  *)
(* block, row_offset is 9, and the work-history title row and every row    *)
(* below it sit 9 rows lower (the title at row 40), the rows above 22      *)
(* keeping their place; the stage raises no exception.                     *)
(***************************************************************************)
MasterAndDoctorateLayout ==
    (HasBoth /\ (AfterEducation \/ pc = "failed")) =>
        /\ ~raised
        /\ row_offset = 9
        /\ \A f \in BlockFields(22, education_list[MasterIdx]) :
              cells[f[1]][f[2]].value = Rendered(f[3], f[4])
        /\ cells[31][1].value = DoctoralTitle
        /\ \A f \in DoctoralFields :
              cells[f[1]][f[2]].value = Rendered(f[3], f[4])
        /\ cells[40] = Template[31]
        /\ \A r \in 33..TemplateRows : cells[r + 9] = Template[r]
        /\ \A r \in 1..21 : \A c \in Cols : cells[r][c].rest = Template[r][c].rest

\* C3 happens: the education stage has run on a list with both tiers and the
\* old title row is at row 40
MasterAndDoctorateLayoutSeen ==
    /\ AfterEducation
    /\ HasBoth
    /\ row_offset = 9
    /\ cells[31][1].value = DoctoralTitle
    /\ cells[40] = Template[31]

(***************************************************************************)
(* C4: fill_education inserts the doctoral block iff the list has both a   *)
(* Master-tier and a Doctorate-tier entry; for every other list no row     *)
(* moves, the merged ranges are the template's and row_offset is 0.        *)
(***************************************************************************)
DoctoralBlockIffBothTiers ==
    AfterEducation =>
        /\ row_offset = (IF HasBoth THEN 9 ELSE 0)
        /\ (~HasBoth =>
                /\ \A r \in 30..MaxRow : cells[r] = Template[r]
                /\ merged_cells = TemplateMerges)
        /\ (HasBoth => cells[40] = Template[31] /\ cells[31][1].value = DoctoralTitle)

\* C4 happens: the education stage has run on a list with a Doctorate entry
\* and no Master entry, and nothing was inserted
DoctoralBlockIffBothTiersSeen ==
    /\ AfterEducation
    /\ HasDoctorate
    /\ ~HasMaster
    /\ row_offset = 0
    /\ cells[31] = Template[31]
    /\ cells[23][4].value = Rendered(get(education_list[DoctorateIdx], "university"), FALSE)

\* the style origin of a row's first cell, which travels with the row
RowId(cs, r) == cs[r][1].rest

\* a section stage run on more items than the template has rows: the rows
\* above R + K stay, the rows from R + K move down by N - K, every one of the
\* N data rows is written, and row_offset grows by N - K
Grows(stage, anchor, items, ncols) ==
    (pc = stage /\ Len(items) > template_rows) =>
        LET R == anchor + row_offset
            n == Len(items) - template_rows
            at == R + template_rows
        IN  /\ row_offset' = row_offset + n
            /\ \A r \in 1..(at - 1) : RowId(cells', r) = RowId(cells, r)
            /\ \A r \in at..(MaxRow - n) : cells'[r + n][1] = cells[r][1]
            /\ \A r \in R..(R + Len(items) - 1) : \A c \in 1..ncols :
                    cells'[r][c].kind = "cell" /\ cells'[r][c].value.t = "str"

(***************************************************************************)
(* C5: a work-history (anchor 33) or project-history (anchor 38) stage     *)
(* with N > K = 2 items and data start row R inserts exactly N - K rows at *)
(* row R + K and raises row_offset by N - K in the same step, so the next  *)
(* section resolves its anchor on the new layout.                          *)
(***************************************************************************)
GrowthInsertsAtEnd ==
    [][/\ Grows("fill_work_experience", 33, work_exp, 5)
       /\ Grows("fill_project_experience", 38, project_exp, 6)]_vars

\* C5 happens: 5 work entries and 3 project entries have been written, the
\* project rows starting 3 rows lower, and row_offset grew by 3 and then by 1
GrowthInsertsAtEndSeen ==
    /\ pc = "fill_technical_skills"
    /\ Len(work_exp) = 5
    /\ Len(project_exp) = 3
    /\ row_offset = EduOffset + 3 + 1
    /\ \A r \in WorkStart..(WorkStart + 4) : cells[r][3].value.t = "str"
    /\ \A r \in ProjectStart..(ProjectStart + 2) : cells[r][3].value.t = "str"
    /\ ProjectStart = 41 + EduOffset

Max(a, b) == IF a > b THEN a ELSE b

\* every data cell of a row is empty and not highlighted
Cleared(r, ncols) ==
    \A c \in 1..ncols : cells[r][c].value = None /\ ~Highlighted(cells[r][c])

\* the section starting at R has exactly `rows` data rows: the template row
\* that follows its example rows is found right below them
EndsAt(R, rows, following) == RowId(cells, R + rows) = <<following, 1>>

(***************************************************************************)
(* C6: a work-history or project-history section composed from one item    *)
(* (1 <= N < K = 2) keeps its two rows, adds nothing to row_offset, and    *)
(* the unused second example row has every data cell empty and without     *)
(* highlight.                                                              *)
(***************************************************************************)
ShortSectionBlanked ==
    Finished =>
        /\ (Len(work_exp) = 1 =>
                /\ EndsAt(WorkStart, template_rows, 35)
                /\ Cleared(WorkStart + 1, 5))
        /\ (Len(project_exp) = 1 =>
                /\ EndsAt(ProjectStart, template_rows, 40)
                /\ Cleared(ProjectStart + 1, 6))
        /\ (Len(work_exp) = 1 /\ Len(project_exp) = 1 => row_offset = EduOffset)

(***************************************************************************)
(* C7: a work-history or project-history section composed from an empty    *)
(* list writes no data row, adds nothing to row_offset, and both template  *)
(* example rows have their cell values cleared.                            *)
(***************************************************************************)
EmptySectionBlanked ==
    Finished =>
        /\ (Len(work_exp) = 0 =>
                /\ EndsAt(WorkStart, template_rows, 35)
                /\ \A r \in {WorkStart, WorkStart + 1} : \A c \in 1..5 :
                      cells[r][c].value = None)
        /\ (Len(project_exp) = 0 =>
                /\ EndsAt(ProjectStart, template_rows, 40)
                /\ \A r \in {ProjectStart, ProjectStart + 1} : \A c \in 1..6 :
                      cells[r][c].value = None)
        /\ (Len(work_exp) = 0 /\ Len(project_exp) = 0 => row_offset = EduOffset)

\* item i of a section is in row R + i, exactly N of the section's data rows
\* hold anything, and the section has max(N, K) >= K data rows
SectionRows(R, items, keys, following) ==
    LET N == Len(items)
        rows == Max(N, template_rows)
    IN  /\ \A i \in 1..N : \A c \in 1..Len(keys) :
              cells[R + i - 1][c].value =
                  Rendered(get(items[i], keys[c]), IsDateKey(keys[c]))
        /\ Cardinality({r \in R..(R + rows - 1) :
                \E c \in 1..Len(keys) : cells[r][c].value # None}) = N
        /\ EndsAt(R, rows, following)

(***************************************************************************)
(* C8: after a repeating section is composed from N items with data start  *)
(* row R, item i (0-based) is in row R + i, exactly N data rows of the     *)
(* section are populated, and the section has at least K = 2 data rows.    *)
(***************************************************************************)
PopulatedRowsEqualItems ==
    Finished =>
        /\ SectionRows(WorkStart, work_exp, WorkKeys, 35)
        /\ SectionRows(ProjectStart, project_exp, ProjectKeys, 40)

\* the row a stage inserts at
InsertionRow ==
    CASE pc = "fill_education" -> 31 + row_offset
      [] pc = "fill_work_experience" -> 33 + row_offset + template_rows
      [] pc = "fill_project_experience" -> 38 + row_offset + template_rows
      [] OTHER -> 0

\* the data rows a stage unmerges before it writes them
DataRows ==
    CASE pc = "fill_work_experience" ->
            (33 + row_offset)..(33 + row_offset + Len(work_exp) - 1)
      [] pc = "fill_project_experience" ->
            (38 + row_offset)..(38 + row_offset + Len(project_exp) - 1)
      [] OTHER -> {}

Shifted(m, count) == [m EXCEPT !.r0 = @ + count, !.r1 = @ + count]

(***************************************************************************)
(* C9: a stage that inserts count rows at insertionRow (doctoral block,    *)
(* work-history growth, project-history growth) leaves every merged range  *)
(* ending above insertionRow as it was, moves every merged range starting  *)
(* at or below insertionRow down by count rows, and neither loses nor      *)
(* duplicates a range (the ranges on the data rows the stage unmerges      *)
(* before writing aside).                                                  *)
(***************************************************************************)
InsertionShiftsMerges ==
    [][row_offset' # row_offset =>
         LET count == row_offset' - row_offset
             kept == {m \in merged_cells : m.r0 \notin DataRows}
             above == {m \in kept : m.r1 < InsertionRow}
             below == {m \in kept : m.r0 >= InsertionRow}
         IN  /\ above \subseteq merged_cells'
             /\ {Shifted(m, count) : m \in below} \subseteq merged_cells'
             /\ \A m \in below : m \notin merged_cells'
                    \/ \E k \in below : m = Shifted(k, count)]_vars

(***************************************************************************)
(* C10: after the work-history or project-history section is composed from *)
(* N >= 1 items starting at data row R, no merged range intersects the     *)
(* data rows R .. R+N-1 across the section's data columns, with or without *)
(* the doctoral block and for every N.                                     *)
(***************************************************************************)
NoMergeOverDataRows ==
    /\ (pc = "fill_project_experience" =>
            \A m \in merged_cells :
                ~(/\ m.r0 <= WorkStart + Len(work_exp) - 1
                  /\ m.r1 >= WorkStart
                  /\ m.c0 <= 5))
    /\ (pc = "fill_technical_skills" =>
            \A m \in merged_cells :
                ~(/\ m.r0 <= ProjectStart + Len(project_exp) - 1
                  /\ m.r1 >= ProjectStart
                  /\ m.c0 <= 6))

(***************************************************************************)
(* C11: with E = 9 for a Master and a Doctorate entry and 0 otherwise,     *)
(* W = max(0, Nw - 2) and P = max(0, Np - 2), the work-history data is     *)
(* written from row 33 + E, the project-history data from row 38 + E + W   *)
(* and the skills fields at rows 42..44 + E + W + P in column 2; these     *)
(* are the rows the template's rows 33, 38 and 42..44 have moved to, so    *)
(* no stage writes through a row resolved before an insertion above it.    *)
(***************************************************************************)
AnchorsFollowInsertions ==
    LET off == EduOffset + WorkOffset + ProjectOffset
        WorkAt ==
            /\ \A f \in WorkFields : cells[f[1]][f[2]].value = Rendered(f[3], f[4])
            /\ RowId(cells, 33 + EduOffset) = <<33, 1>>
        ProjectAt ==
            /\ \A f \in ProjectFields : cells[f[1]][f[2]].value = Rendered(f[3], f[4])
            /\ RowId(cells, 38 + EduOffset + WorkOffset) = <<38, 1>>
        SkillsAt ==
            /\ \A f \in SkillsFields : cells[f[1]][f[2]].value = Rendered(f[3], f[4])
            /\ \A k \in 1..3 : RowId(cells, 41 + k + off) = <<41 + k, 1>>
    IN  /\ (pc = "fill_project_experience" => WorkAt)
        /\ (pc = "fill_technical_skills" => WorkAt /\ ProjectAt)
        /\ (Finished => WorkAt /\ ProjectAt /\ SkillsAt)

\* C11 happens: a finished sheet with the doctoral block, 5 work entries and
\* 4 project entries, the skills written 14 rows below their template rows
AnchorsFollowInsertionsSeen ==
    /\ Finished
    /\ HasBoth
    /\ Len(work_exp) = 5
    /\ Len(project_exp) = 4
    /\ row_offset = 14
    /\ \E f \in SkillsFields :
          /\ f[1] = 56
          /\ IsPresent(f[3], f[4])
          /\ cells[56][2].value = Shown(f[3], f[4])

(***************************************************************************)
(* C12: between the operations of a generate run row_offset is the number  *)
(* of rows inserted since the template was loaded (the template's last row *)
(* sits that many rows lower); it starts at 0, never decreases, and only   *)
(* the three inserting stages change it.                                   *)
(***************************************************************************)
OffsetCountsInsertedRows ==
    /\ row_offset = 0
    /\ [](RowId(cells, TemplateRows + row_offset) = <<TemplateRows, 1>>)
    /\ [][/\ row_offset' >= row_offset
          /\ (row_offset' # row_offset =>
                pc \in {"fill_education", "fill_work_experience",
                        "fill_project_experience"})]_vars

\* C12 happens: all three insertions have been made and the template's last
\* row is 9 + 3 + 3 rows lower
OffsetCountsInsertedRowsSeen ==
    /\ Finished
    /\ HasBoth
    /\ Len(work_exp) = 5
    /\ Len(project_exp) = 5
    /\ row_offset = 15
    /\ RowId(cells, TemplateRows + 15) = <<TemplateRows, 1>>

\* the education list without the entries no tier recognizes
RecognizedOnly(list) == SelectSeq(list, LAMBDA edu : tier_of(edu) # "none")

(***************************************************************************)
(* C13: an education entry whose degree label matches no tier (an empty,   *)
(* missing or null label included) does not make fill_education raise, and *)
(* the grid, the merged ranges and row_offset after the stage are what the *)
(* list without that entry gives.                                          *)
(***************************************************************************)
UnrecognizedTierDropped ==
    [][pc = "fill_education" =>
         LET w == fill_education(Generator,
                    [resume_data EXCEPT !.education = ListOf(RecognizedOnly(education_list))])
         IN  /\ ~raised'
             /\ cells' = w.cells
             /\ merged_cells' = w.merged
             /\ row_offset' = w.row_offset]_vars

(***************************************************************************)
(* C19: whatever field of the record is null or missing (a scalar, a list  *)
(* or a whole sub-record), generate raises no exception and saves the      *)
(* sheet.                                                                  *)
(***************************************************************************)
NullFieldNeverRaises == ~raised /\ pc # "failed"

(***************************************************************************)
(* _fill_cell called on its own, on a sheet whose education stage has run  *)
(* (without and with the doctoral block), for a value of every kind.       *)
(***************************************************************************)
\* values of every kind _fill_cell tells apart
FillValues ==
    {None, Str(<<>>), List(<<>>), Str(<<"x">>), Str(<<" ">>),
     List(<< <<"a">> >>), List(<< <<"a">>, <<"b">> >>),
     Bool(TRUE), Bool(FALSE), Number(<<"0">>), Number(<<"4", "2">>)}

\* values passed with is_date set
FillDates == {DateVals[i] : i \in 1..Len(DateVals)} \cup {Str(<<"x">>)}

\* anchors of cells no merged range covers, the last one below the template
FillRows == {3, 7, 14, 33, 46}

FillCellCalls ==
    {[op |-> "_fill_cell", row |-> r, col |-> c, value |-> v, is_date |-> d] :
        r \in FillRows, c \in {2, 4}, v \in FillValues \cup FillDates, d \in BOOLEAN}

\* the generator once fill_basic_info, fill_personal_info and fill_education
\* have run on a record
AfterEducationOf(data) ==
    LET w0 == [cells |-> Template, merged |-> TemplateMerges,
               row_offset |-> 0, raised |-> FALSE]
        w1 == fill_basic_info(w0, data)
        w2 == fill_personal_info(w1, data)
        w3 == fill_education(w2, data)
    IN  InOrder(<<w1, w2, w3>>)

InitFillCell ==
    /\ resume_data \in {Record(0, 0, <<M>>, 1, 1), Record(0, 0, <<M, D>>, 1, 1)}
    /\ \E w \in {AfterEducationOf(resume_data)} :
           /\ cells = w.cells
           /\ merged_cells = w.merged
           /\ row_offset = w.row_offset
           /\ raised = w.raised
    /\ saved = FALSE
    /\ pc = "_fill_cell"
    /\ call \in {a \in FillCellCalls : a.is_date => a.value \in FillDates}
    /\ entry = "generate"
    /\ outcome = "pending"
    /\ batch = <<>>

\* self._fill_cell(row, col, value, is_date=is_date)
FillCell ==
    /\ pc = "_fill_cell"
    /\ LET w == _fill_cell(Generator, call.row, call.col, call.value, call.is_date)
       IN  /\ cells' = w.cells
           /\ merged_cells' = w.merged
           /\ row_offset' = w.row_offset
           /\ raised' = w.raised
    /\ pc' = "returned"
    /\ UNCHANGED <<saved, resume_data, call, entry, outcome, batch>>

SpecFillCell == InitFillCell /\ [][FillCell]_vars

(***************************************************************************)
(* C15: _fill_cell(row, col, value), the value date-normalized when        *)
(* is_date is set, writes the placeholder with the highlight for None, ""  *)
(* and []; the elements joined by the delimiter for a non-empty list; YES  *)
(* or NO for a bool; str(value) for any other value, these without a       *)
(* highlight.  Only the cell at (row + row_offset, col) changes: every     *)
(* other cell, the merged ranges and row_offset stay.                      *)
(***************************************************************************)
FillCellWritesOneCell ==
    [][pc = "_fill_cell" =>
         LET r == call.row + row_offset
             c == call.col
             v == IF call.is_date /\ Truthy(call.value)
                  THEN _format_date(call.value) ELSE call.value
             before == IF cells[r][c].kind = "absent" THEN NewCell ELSE cells[r][c]
             after == cells'[r][c]
             plain(text) ==
                /\ after.value = text
                /\ after.fill = before.fill
                /\ after.font = before.font
         IN  /\ ~raised'
             /\ CASE v \in {None, Str(<<>>), List(<<>>)} ->
                        after.value = PLACEHOLDER /\ FullyHighlighted(after)
                  [] v.t = "list" /\ v.l # <<>> -> plain(Str(Join(v.l)))
                  [] v.t = "bool" -> plain(Str(IF v.b THEN <<"YES">> ELSE <<"NO">>))
                  [] v.t = "int" -> plain(Str(v.s))
                  [] OTHER -> plain(v)
             /\ after.kind = "cell"
             /\ after.rest = before.rest
             /\ \A r2 \in Rows : \A c2 \in Cols :
                    <<r2, c2>> # <<r, c>> => cells'[r2][c2] = cells[r2][c2]
             /\ merged_cells' = merged_cells
             /\ row_offset' = row_offset]_vars

\* C15 happens: _fill_cell has returned from writing a two-element list 9
\* rows below its anchor, joined and without highlight
FillCellWritesOneCellSeen ==
    /\ pc = "returned"
    /\ row_offset = 9
    /\ call.value = List(<< <<"a">>, <<"b">> >>)
    /\ cells[call.row + 9][call.col].value = Str(<<"a", "DUN", "b">>)
    /\ ~Highlighted(cells[call.row + 9][call.col])

(***************************************************************************)
(* _format_date called on its own, then on its own result, for date texts  *)
(* put together from a year, a month and a day of 0 to 5 digits, the       *)
(* separators of both notations, a tail, and spaces around.                *)
(***************************************************************************)
YearParts == {<<>>, <<"2", "0", "2">>, <<"2", "0", "2", "1">>, <<"2", "0", "2", "1", "9">>}

MonthParts == {<<>>, <<"3">>, <<"1", "2">>, <<"1", "2", "3">>}

DayParts == {<<>>, <<"5">>, <<"0", "5">>, <<"1", "0", "5">>}

DateParts ==
    [lead : {<<>>, <<" ">>}, year : YearParts, sep1 : {<<>>, <<"-">>, <<"NIAN">>, <<"/">>},
     month : MonthParts, sep2 : {<<>>, <<"-">>, <<"YUE">>}, day : DayParts,
     tail : {<<>>, <<"RI">>, <<"x">>}, trail : {<<>>, <<" ">>}]

DateText(p) ==
    Str(p.lead \o p.year \o p.sep1 \o p.month \o p.sep2 \o p.day \o p.tail \o p.trail)

FormatDateCalls ==
    {[op |-> "_format_date", parts |-> p, date_str |-> DateText(p),
      result |-> None, again |-> None] : p \in DateParts}
    \cup {[op |-> "_format_date", parts |-> [k \in DOMAIN CHOOSE p \in DateParts : TRUE |-> <<>>],
           date_str |-> None, result |-> None, again |-> None]}

InitFormatDate ==
    /\ Loaded
    /\ pc = "_format_date"
    /\ resume_data = Record(0, 0, <<B>>, 1, 1)
    /\ call \in FormatDateCalls
    /\ entry = "generate"
    /\ outcome = "pending"
    /\ batch = <<>>

\* result = self._format_date(date_str)
FormatDate ==
    /\ pc = "_format_date"
    /\ call' = [call EXCEPT !.result = _format_date(call.date_str)]
    /\ pc' = "formatted"
    /\ UNCHANGED <<cells, merged_cells, row_offset, raised, saved, resume_data,
                   entry, outcome, batch>>

\* self._format_date(result)
FormatDateAgain ==
    /\ pc = "formatted"
    /\ call' = [call EXCEPT !.again = _format_date(call.result)]
    /\ pc' = "formatted_twice"
    /\ UNCHANGED <<cells, merged_cells, row_offset, raised, saved, resume_data,
                   entry, outcome, batch>>

NextFormatDate == FormatDate \/ FormatDateAgain

SpecFormatDate == InitFormatDate /\ [][NextFormatDate]_vars

\* the notations of the date text of the call, spaces around it aside
IsoBody(ylen, mlens, dlens) ==
    LET p == call.parts
    IN  /\ call.date_str # None
        /\ Len(p.year) = ylen /\ p.sep1 = <<"-">> /\ Len(p.month) \in mlens
        /\ IF dlens = {0} THEN p.sep2 = <<>> /\ p.day = <<>>
                          ELSE p.sep2 = <<"-">> /\ Len(p.day) \in dlens
        /\ p.tail = <<>>

YearBody ==
    LET p == call.parts
    IN  /\ call.date_str # None
        /\ Len(p.year) = 4 /\ p.sep1 = <<>> /\ p.month = <<>> /\ p.sep2 = <<>>
        /\ p.day = <<>> /\ p.tail = <<>>

LocalBody(with_day) ==
    LET p == call.parts
    IN  /\ call.date_str # None
        /\ Len(p.year) = 4 /\ p.sep1 = <<"NIAN">> /\ Len(p.month) \in 1..2
        /\ p.sep2 = <<"YUE">>
        /\ IF with_day THEN Len(p.day) \in 1..2 /\ p.tail \in {<<>>, <<"RI">>}
                       ELSE p.day = <<>> /\ p.tail = <<>>

RecognizedCall ==
    \/ IsoBody(4, {2}, {2}) \/ IsoBody(4, {2}, {0}) \/ IsoBody(4, {1}, {0})
    \/ YearBody \/ LocalBody(TRUE) \/ LocalBody(FALSE)

Padded(x) == IF Len(x) = 1 THEN <<"0", x[1]>> ELSE x

Canonical(v) ==
    /\ v.t = "str"
    /\ Len(v.s) = 10
    /\ \A i \in {1, 2, 3, 4, 6, 7, 9, 10} : v.s[i] \in Digits
    /\ v.s[5] = "-" /\ v.s[8] = "-"

(***************************************************************************)
(* C16: for a date text in a recognized notation, _format_date returns a   *)
(* text of the shape dddd-dd-dd, and _format_date of that result is the    *)
(* result again.                                                           *)
(***************************************************************************)
FormatDateCanonicalIdempotent ==
    RecognizedCall =>
        /\ pc \in {"formatted", "formatted_twice"} => Canonical(call.result)
        /\ pc = "formatted_twice" => call.again = call.result

\* C16 happens: a localized date with a one-digit month and day was formatted
\* twice
FormatDateCanonicalIdempotentSeen ==
    /\ pc = "formatted_twice"
    /\ LocalBody(TRUE)
    /\ Len(call.parts.month) = 1 /\ Len(call.parts.day) = 1
    /\ call.again = Str(<<"2", "0", "2", "1", "-", "0", "3", "-", "0", "5">>)

(***************************************************************************)
(* C17: _format_date returns YYYY-MM-DD for YYYY-MM-DD, YYYY-MM-01 for     *)
(* YYYY-MM, YYYY-0M-01 for YYYY-M, YYYY-01-01 for YYYY, and for the        *)
(* localized notations the year, the padded month and the padded day (01   *)
(* without a day); None for a null, empty or blank text, and a text for    *)
(* every other input.                                                      *)
(***************************************************************************)
FormatDateByNotation ==
    pc = "formatted" =>
        LET p == call.parts
            r == call.result
            ymd(y, m, d) == Str(y \o <<"-">> \o m \o <<"-">> \o d)
            blank == p.year \o p.sep1 \o p.month \o p.sep2 \o p.day \o p.tail = <<>>
        IN  /\ IsoBody(4, {2}, {2}) => r = ymd(p.year, p.month, p.day)
            /\ IsoBody(4, {2}, {0}) => r = ymd(p.year, p.month, <<"0", "1">>)
            /\ IsoBody(4, {1}, {0}) => r = ymd(p.year, <<"0">> \o p.month, <<"0", "1">>)
            /\ YearBody => r = ymd(p.year, <<"0", "1">>, <<"0", "1">>)
            /\ LocalBody(TRUE) => r = ymd(p.year, Padded(p.month), Padded(p.day))
            /\ LocalBody(FALSE) => r = ymd(p.year, Padded(p.month), <<"0", "1">>)
            /\ (call.date_str = None \/ blank) <=> r = None
            /\ r # None => r.t = "str" /\ r.s # <<>>

\* C17 happens: a YYYY-M text with spaces around it came back as YYYY-0M-01
FormatDateByNotationSeen ==
    /\ pc = "formatted"
    /\ call.date_str = Str(<<" ", "2", "0", "2", "1", "-", "3", " ">>)
    /\ call.result = Str(<<"2", "0", "2", "1", "-", "0", "3", "-", "0", "1">>)

(***************************************************************************)
(* C18: for a non-blank date text in no recognized notation (here: a text  *)
(* ending in a letter), spaces around it included, _format_date returns    *)
(* the text it was given, character for character, and does not raise.     *)
(***************************************************************************)
UnrecognizedReturnedUnchanged ==
    (/\ pc = "formatted"
     /\ call.date_str # None
     /\ call.parts.tail = <<"x">>) =>
        call.result = call.date_str /\ ~raised

(***************************************************************************)
(* The entry points that compose one record: each has the result of        *)
(* parse_resume_with_llm in hand, looks (or does not look) for its "error" *)
(* key, runs generate and reports.  A result with the "error" key has none *)
(* of the sub-records.                                                     *)
(***************************************************************************)
EntryPoints == {"process_single_resume", "main", "process_resume", "process_single_task"}

\* {"error": ..., "raw_response": ...}
ErrorResult == [k \in SubRecords |-> Missing]

ParsedResults ==
    {Record(s, 0, shape, 1, 3) : s \in 0..1, shape \in {<<B>>, <<B, M, D>>}}
        \cup {[Record(0, 0, <<B>>, 1, 1) EXCEPT !.basic_info = None]}

\* the entry point has an `if "error" in parsed_data` before it composes
checks_error_key(e) == e \in {"process_single_resume", "main", "process_resume"}

InitEntry ==
    /\ Loaded
    /\ pc = "parsed"
    /\ entry \in EntryPoints
    /\ \/ call = [op |-> "parse_resume_with_llm", error |-> TRUE, excel_file |-> "none"]
          /\ resume_data = ErrorResult
       \/ call = [op |-> "parse_resume_with_llm", error |-> FALSE, excel_file |-> "none"]
          /\ resume_data \in ParsedResults
    /\ outcome = "pending"
    /\ batch = <<>>

\* the entry point makes its output with tempfile.NamedTemporaryFile(
\* delete=False, suffix='.xlsx') before it calls generate
opens_temp_file(e) == e \in {"process_resume", "process_single_task"}

\* if "error" in parsed_data: return False, ...   (where the entry point has
\* it); else the generator is made, and the output file where it is a
\* temporary file
CheckError ==
    /\ pc = "parsed"
    /\ IF checks_error_key(entry) /\ call.error
       THEN pc' = "returned" /\ outcome' = "failed" /\ call' = call
       ELSE /\ pc' = "fill_basic_info"
            /\ outcome' = outcome
            /\ call' = [call EXCEPT !.excel_file =
                           IF opens_temp_file(entry) THEN "empty" ELSE "none"]
    /\ UNCHANGED <<cells, merged_cells, row_offset, raised, saved, resume_data,
                   entry, batch>>

\* return True / status 'completed' after generate; except Exception: failed
Report ==
    /\ pc \in {"done", "failed"}
    /\ entry \in EntryPoints
    /\ outcome' = IF pc = "done" THEN "success" ELSE "failed"
    /\ pc' = "returned"
    /\ UNCHANGED <<cells, merged_cells, row_offset, raised, saved, resume_data,
                   call, entry, batch>>

NextEntry == CheckError \/ Next \/ Report

SpecEntry == InitEntry /\ [][NextEntry]_vars

(***************************************************************************)
(* C14: in every entry point, when the inference result has the "error"    *)
(* key, no fill stage runs, nothing is saved and the record is reported as *)
(* failed.                                                                 *)
(***************************************************************************)
ErrorKeyShortCircuits ==
    (entry \in EntryPoints /\ call.error) =>
        /\ pc \in {"parsed", "returned"}
        /\ cells = Template
        /\ ~saved
        /\ pc = "returned" => outcome = "failed"

(***************************************************************************)
(* Batches: process_directory takes the files one after the other, the     *)
(* desktop process_files hands its pending tasks to a pool of              *)
(* MAX_PARALLEL_WORKERS threads.  Each record goes through extraction,     *)
(* inference and composition, on a generator of its own; what each stage   *)
(* does with a file is given with the file.                                *)
(***************************************************************************)
MAX_PARALLEL_WORKERS == 3

MaxBatch == 4

\* records of a batch that are not "good"
MaxFailures == 2

\* a file whose text cannot be extracted, one whose inference result has the
\* "error" key, one whose record makes generate raise, and one that composes
ResumeKinds == {"unreadable", "garbled", "null_basic_info", "good"}

\* generator.generate(parsed_data, output) raises on the record of this file
\* (a record with a null basic_info does: fill_basic_info calls None.get)
generate_raises(kind) == kind = "null_basic_info"

Batches ==
    {kinds \in UNION {[1..n -> ResumeKinds] : n \in 1..MaxBatch} :
        Cardinality({i \in DOMAIN kinds : kinds[i] # "good"}) <= MaxFailures}

BatchEntries == {"process_directory", "process_files"}

\* the function that handles one record of the batch
single_entry(e) ==
    IF e = "process_directory" THEN "process_single_resume" ELSE "process_single_task"

\* threads working at a time
workers(e) == IF e = "process_directory" THEN 1 ELSE MAX_PARALLEL_WORKERS

Running(b) == {i \in DOMAIN b : b[i].step \in {"extract", "parse", "generate"}}

\* variant: the exception leaves the loop, no later record gets its turn
fail_task_aborts_batch(b, i) ==
    [j \in DOMAIN b |-> IF j >= i THEN [b[j] EXCEPT !.status = "error", !.step = "done"]
                        ELSE b[j]]

\* except Exception as e: return False, ... / task.status = 'error'
fail_task(b, i) == [b EXCEPT ![i].status = "error", ![i].step = "done"]

\* return True, ... / task.status = 'completed'
complete_task(b, i) == [b EXCEPT ![i].status = "completed", ![i].step = "done"]

\* success_count += 1 / fail_count += 1 (process_directory only)
tally(e, counts, success) ==
    IF e # "process_directory" THEN counts
    ELSE IF success THEN [counts EXCEPT !.success_count = @ + 1]
    ELSE [counts EXCEPT !.fail_count = @ + 1]

InitBatch ==
    /\ Loaded
    /\ pc = "start"
    /\ resume_data = ErrorResult
    /\ entry \in BatchEntries
    /\ call = [op |-> "batch", quota |-> "unchecked"]
    /\ outcome = [success_count |-> 0, fail_count |-> 0]
    /\ \E kinds \in Batches :
         batch = [i \in DOMAIN kinds |->
                    [resume |-> kinds[i], status |-> "pending", step |-> "queued"]]

\* process_files marks every pending task 'processing' and starts the thread;
\* process_directory enters its loop
Begin ==
    /\ pc = "start"
    /\ IF entry = "process_files"
       THEN /\ batch' = [i \in DOMAIN batch |-> [batch[i] EXCEPT !.status = "processing"]]
            /\ pc' = "quota"
       ELSE /\ batch' = batch
            /\ pc' = "pool"
    /\ UNCHANGED <<cells, merged_cells, row_offset, raised, saved, resume_data,
                   call, entry, outcome>>

\* consume_quota refuses: every task is marked 'error' and none is run
QuotaRefused ==
    /\ pc = "quota"
    /\ batch' = [i \in DOMAIN batch |-> [batch[i] EXCEPT !.status = "error"]]
    /\ call' = [call EXCEPT !.quota = "refused"]
    /\ pc' = "returned"
    /\ UNCHANGED <<cells, merged_cells, row_offset, raised, saved, resume_data,
                   entry, outcome>>

\* no licence, or consume_quota succeeds
QuotaGranted ==
    /\ pc = "quota"
    /\ call' = [call EXCEPT !.quota = "granted"]
    /\ pc' = "pool"
    /\ UNCHANGED <<cells, merged_cells, row_offset, raised, saved, resume_data,
                   entry, outcome, batch>>

Unchanged_but_batch ==
    UNCHANGED <<cells, merged_cells, row_offset, raised, saved, resume_data,
                call, entry, pc>>

\* the next file of the loop / the next queued task when a thread is free
Submit(i) ==
    /\ pc = "pool"
    /\ batch[i].step = "queued"
    /\ \A j \in 1..(i - 1) : batch[j].step # "queued"
    /\ Cardinality(Running(batch)) < workers(entry)
    /\ batch' = [batch EXCEPT ![i].step = "extract", ![i].status = "processing"]
    /\ outcome' = outcome
    /\ Unchanged_but_batch

\* extract_text_from_resume(file)
Extract(i) ==
    /\ pc = "pool"
    /\ batch[i].step = "extract"
    /\ IF batch[i].resume = "unreadable"
       THEN batch' = fail_task(batch, i) /\ outcome' = tally(entry, outcome, FALSE)
       ELSE batch' = [batch EXCEPT ![i].step = "parse"] /\ outcome' = outcome
    /\ Unchanged_but_batch

\* parse_resume_with_llm(text), and the test of its "error" key
Parse(i) ==
    /\ pc = "pool"
    /\ batch[i].step = "parse"
    /\ IF batch[i].resume = "garbled" /\ checks_error_key(single_entry(entry))
       THEN batch' = fail_task(batch, i) /\ outcome' = tally(entry, outcome, FALSE)
       ELSE batch' = [batch EXCEPT ![i].step = "generate"] /\ outcome' = outcome
    /\ Unchanged_but_batch

\* generator.generate(parsed_data, output)
Compose(i) ==
    /\ pc = "pool"
    /\ batch[i].step = "generate"
    /\ IF generate_raises(batch[i].resume)
       THEN batch' = fail_task(batch, i) /\ outcome' = tally(entry, outcome, FALSE)
       ELSE batch' = complete_task(batch, i) /\ outcome' = tally(entry, outcome, TRUE)
    /\ Unchanged_but_batch

\* the loop has taken every file / every future has completed
Finish ==
    /\ pc = "pool"
    /\ \A i \in DOMAIN batch : batch[i].step = "done"
    /\ pc' = "returned"
    /\ UNCHANGED <<cells, merged_cells, row_offset, raised, saved, resume_data,
                   call, entry, outcome, batch>>

NextBatch ==
    \/ Begin
    \/ QuotaRefused
    \/ QuotaGranted
    \/ \E i \in DOMAIN batch : Submit(i)
    \/ \E i \in DOMAIN batch : Extract(i)
    \/ \E i \in DOMAIN batch : Parse(i)
    \/ \E i \in DOMAIN batch : Compose(i)
    \/ Finish

SpecBatch == InitBatch /\ [][NextBatch]_vars

WithStatus(st) == {i \in DOMAIN batch : batch[i].status = st}

(***************************************************************************)
(* C20: in a batch, run file by file or by the worker pool, a record that  *)
(* fails in extraction, inference or composition changes no other          *)
(* record's outcome: a record that composes ends as a success and one that *)
(* cannot be read or composed ends as a failure whatever the others are;   *)
(* the batch goes on while a record is left; at its end every record was   *)
(* attempted, each is a success or a failure, and successes + failures is  *)
(* the number of records.                                                  *)
(***************************************************************************)
BatchRecordsIndependent ==
    (entry \in BatchEntries /\ call.quota # "refused") =>
        /\ \A i \in DOMAIN batch :
              batch[i].step = "done" =>
                 /\ batch[i].resume = "good" => batch[i].status = "completed"
                 /\ batch[i].resume \in {"unreadable", "null_basic_info"} =>
                       batch[i].status = "error"
        /\ pc = "pool" =>
              \/ Running(batch) # {}
              \/ \E i \in DOMAIN batch : batch[i].step = "queued"
              \/ \A i \in DOMAIN batch : batch[i].step = "done"
        /\ pc = "returned" =>
              /\ \A i \in DOMAIN batch :
                    batch[i].step = "done" /\ batch[i].status \in {"completed", "error"}
              /\ Cardinality(WithStatus("completed")) + Cardinality(WithStatus("error"))
                    = Len(batch)
              /\ entry = "process_directory" =>
                    /\ outcome.success_count = Cardinality(WithStatus("completed"))
                    /\ outcome.fail_count = Cardinality(WithStatus("error"))
                    /\ outcome.success_count + outcome.fail_count = Len(batch)

\* C20 happens: the pool has finished a batch of four in which the first
\* record failed in extraction and the third in composition, and the two
\* others are completed
BatchRecordsIndependentSeen ==
    /\ entry = "process_files"
    /\ pc = "returned"
    /\ Len(batch) = 4
    /\ batch[1].resume = "unreadable" /\ batch[1].status = "error"
    /\ batch[2].resume = "good" /\ batch[2].status = "completed"
    /\ batch[3].resume = "null_basic_info" /\ batch[3].status = "error"
    /\ batch[4].resume = "good" /\ batch[4].status = "completed"

\* an Excel file of the record is on disk: the workbook generate saved, or
\* the temporary file made for it
ExcelFileExists == saved \/ call.excel_file # "none"

(***************************************************************************)
(* C21: when a record fails with a document-level error (here: the         *)
(* inference result has the "error" key, or a fill stage raised), the      *)
(* failure is reported and no Excel file of the record exists afterwards;  *)
(* the workbook is saved only by the save at the end of generate, after    *)
(* all six fill stages.                                                    *)
(***************************************************************************)
FailureLeavesNoExcelFile ==
    entry \in EntryPoints =>
        /\ (pc = "returned" /\ (call.error \/ raised)) =>
               outcome = "failed" /\ ~ExcelFileExists
        /\ saved => pc \in {"done", "returned"} /\ ~raised

(***************************************************************************)
(* C22: after fill_education rows 22-29 hold the Master entry's data       *)
(* whenever the list has a Master entry, and the Doctorate entry's data    *)
(* exactly when it has a Doctorate entry and no Master entry; in that case *)
(* the title cell (row 22, column 1) reads "BOSHI XUELI", no row is        *)
(* inserted and row_offset is 0; in every other case the title is the      *)
(* template's.                                                             *)
(***************************************************************************)
AdvancedBlockSource ==
    AfterEducation =>
        /\ HasMaster =>
              /\ \A f \in BlockFields(22, education_list[MasterIdx]) :
                    cells[f[1]][f[2]].value = Rendered(f[3], f[4])
              /\ cells[22][1].value = Template[22][1].value
        /\ (HasDoctorate /\ ~HasMaster) =>
              /\ \A f \in BlockFields(22, education_list[DoctorateIdx]) :
                    cells[f[1]][f[2]].value = Rendered(f[3], f[4])
              /\ cells[22][1].value = DoctoralTitle
              /\ row_offset = 0
              /\ \A r \in 30..MaxRow : cells[r] = Template[r]
        /\ (~HasDoctorate /\ ~HasMaster) => cells[22][1].value = Template[22][1].value

\* C22 happens: the education stage has run on a list with a Doctorate entry
\* with a university and no Master entry, and row 23 shows that university
\* under the doctoral title
AdvancedBlockSourceSeen ==
    /\ AfterEducation
    /\ HasDoctorate /\ ~HasMaster
    /\ IsPresent(get(education_list[DoctorateIdx], "university"), FALSE)
    /\ cells[23][4].value = get(education_list[DoctorateIdx], "university")
    /\ cells[22][1].value = DoctoralTitle
    /\ Template[22][1].value # DoctoralTitle

\* the education stage has run and no later stage has raised
PastEducation ==
    pc \in {"fill_work_experience", "fill_project_experience",
            "fill_technical_skills", "save", "done"}

\* the merged ranges with a cell in row r
MergesOnRow(r) == {m \in merged_cells : m.r0 <= r /\ r <= m.r1}

(***************************************************************************)
(* C23: once the doctoral block is inserted, no merged range that starts   *)
(* in column 1 and spans 3 or more columns has a cell in the work-history  *)
(* header row (row 41); the row carries the E:F merge and no other, and    *)
(* its columns 1-5 hold the five header labels; the doctoral title row     *)
(* (row 31) carries the A:F merge and the title "BOSHI XUELI".             *)
(***************************************************************************)
DoctoralInsertRepairsHeader ==
    (HasBoth /\ PastEducation) =>
        /\ ~\E m \in MergesOnRow(41) : m.c0 = 1 /\ m.c1 >= 3
        /\ MergesOnRow(41) = {Rect(41, 5, 41, 6)}
        /\ \A c \in 1..5 : cells[41][c].value = Str(WorkHeaderLabels[c])
        /\ Rect(31, 1, 31, 6) \in merged_cells
        /\ cells[31][1].value = DoctoralTitle

\* C23 happens: generate has finished a sheet with the doctoral block, whose
\* header row moved from row 32 to row 41, under the skills title's old merge
DoctoralInsertRepairsHeaderSeen ==
    /\ Finished
    /\ HasBoth
    /\ Rect(41, 1, 41, 6) \in TemplateMerges
    /\ Rect(41, 1, 41, 6) \notin merged_cells
    /\ RowId(cells, 41) = <<32, 1>>
    /\ cells[41][6].kind = "merged"

\* the rows inserted for a section of n items whose first data row is start
InsertedRows(start, n) == (start + template_rows)..(start + n - 1)

\* the cell carries the style the template authored on <<row, col>>, the
\* highlight of a placeholder aside
StyledAs(cell, origin) ==
    /\ cell.rest = origin
    /\ ~Highlighted(cell) => cell.fill = origin /\ cell.font = origin

\* every row inserted by the stage just run is styled as template row src
InsertedRowsStyledAs(work_src, project_src) ==
    /\ pc = "fill_project_experience" =>
          \A r \in InsertedRows(WorkStart, Len(work_exp)) : \A c \in Cols :
              StyledAs(cells[r][c], <<work_src, c>>)
    /\ pc = "fill_technical_skills" =>
          \A r \in InsertedRows(ProjectStart, Len(project_exp)) : \A c \in Cols :
              StyledAs(cells[r][c], <<project_src, c>>)

(***************************************************************************)
(* C24: when a repeating section grows, every inserted row has, column by  *)
(* column, the style of the section's last template row (row 34 for the    *)
(* work history, row 39 for the project history).                          *)
(***************************************************************************)
InsertedRowsCopyLastRowStyle == InsertedRowsStyledAs(34, 39)

(***************************************************************************)
(* generate on a template that has, besides the merged ranges of the       *)
(* standard one, two ranges of two rows: A34:A35 and A39:A40, each from    *)
(* the last example row of a repeating section into the blank row below.   *)
(***************************************************************************)
TallMerges == {Rect(34, 1, 35, 1), Rect(39, 1, 40, 1)}

TallTemplate ==
    [r \in Rows |-> [c \in Cols |->
        IF \E m \in TallMerges : InRect(m, r, c) /\ <<r, c>> # <<m.r0, m.c0>>
        THEN [Template[r][c] EXCEPT !.kind = "merged", !.value = None]
        ELSE Template[r][c]]]

InitTall ==
    /\ cells = TallTemplate
    /\ merged_cells = TemplateMerges \cup TallMerges
    /\ row_offset = 0
    /\ raised = FALSE
    /\ saved = FALSE
    /\ pc = "fill_basic_info"
    /\ resume_data \in {Record(s, 0, shape, nw, np) :
                          s \in 0..1, shape \in {<<B>>, <<M, D>>},
                          nw \in 1..4, np \in 1..4}
    /\ Direct

SpecTall == InitTall /\ [][Next]_vars

\* the row the stage about to run inserts rows at (0: it inserts none)
PlannedInsertion ==
    CASE pc = "fill_education" /\ HasBoth -> 31 + row_offset
      [] pc = "fill_work_experience" /\ Len(work_exp) > template_rows ->
            33 + row_offset + template_rows
      [] pc = "fill_project_experience" /\ Len(project_exp) > template_rows ->
            38 + row_offset + template_rows
      [] OTHER -> 0

Straddled(at) == \E m \in merged_cells : m.r0 < at /\ at <= m.r1

(***************************************************************************)
(* C25: when a merged range straddles the row a stage is about to insert   *)
(* rows at (its first row above, its last row at or below that row), the   *)
(* stage fails the composition instead of inserting: the exception leaves  *)
(* generate and no row is inserted.                                        *)
(***************************************************************************)
StraddledInsertionFails ==
    [][(PlannedInsertion # 0 /\ Straddled(PlannedInsertion)) =>
          (raised' /\ pc' = "failed" /\ row_offset' = row_offset)]_vars

(***************************************************************************)
(* parse_resume_with_llm, then generate on the record it returns.  What    *)
(* the inference service does at each call is given with the record: it    *)
(* answers with JSON ("json"), with text that is no JSON ("malformed"), or *)
(* the call raises ("raises").                                             *)
(***************************************************************************)
max_retries == 3

Responses == {"json", "malformed", "raises"}

\* variant: any failed attempt but the last is tried again
retries_any_failure(response, attempt) == attempt < max_retries - 1

\* except Exception: if attempt < max_retries - 1: sleep and go round again
retries(response, attempt) == response = "raises" /\ attempt < max_retries - 1

InitParse ==
    /\ Loaded
    /\ pc = "completion"
    /\ resume_data = ErrorResult
    /\ entry = "parse_resume_with_llm"
    /\ outcome = "pending"
    /\ batch = <<>>
    /\ \E script \in [1..max_retries -> Responses] :
       \E record \in {Record(0, 0, <<B>>, 1, 1), Record(1, 0, <<M, D>>, 3, 3)} :
          call = [op |-> "parse_resume_with_llm", attempt |-> 0, calls |-> 0,
                  responses |-> script, record |-> record, error |-> FALSE]

\* one turn of the loop: completion(...), json.loads, and the except clauses
Completion ==
    /\ pc = "completion"
    /\ call.attempt < max_retries
    /\ LET response == call.responses[call.attempt + 1]
           called == [call EXCEPT !.calls = @ + 1]
       IN  CASE response = "json" ->
                  /\ call' = called
                  /\ resume_data' = call.record
                  /\ pc' = "fill_basic_info"
             [] response # "json" /\ retries(response, call.attempt) ->
                  /\ call' = called
                  /\ resume_data' = resume_data
                  /\ pc' = "sleep"
             [] OTHER ->
                  /\ call' = [called EXCEPT !.error = TRUE]
                  /\ resume_data' = ErrorResult
                  /\ pc' = "returned"
    /\ UNCHANGED <<cells, merged_cells, row_offset, raised, saved, entry,
                   outcome, batch>>

\* time.sleep(wait_time), and the next attempt
Sleep ==
    /\ pc = "sleep"
    /\ call' = [call EXCEPT !.attempt = @ + 1]
    /\ pc' = "completion"
    /\ UNCHANGED <<cells, merged_cells, row_offset, raised, saved, resume_data,
                   entry, outcome, batch>>

NextParse == Completion \/ Sleep \/ Next

SpecParse == InitParse /\ [][NextParse]_vars

\* the loop is straight-line code: each of its steps is taken
SpecParseFair == SpecParse /\ WF_vars(Completion \/ Sleep)

StageNumber(p) ==
    CASE p = "fill_basic_info" -> 1 [] p = "fill_personal_info" -> 2
      [] p = "fill_education" -> 3 [] p = "fill_work_experience" -> 4
      [] p = "fill_project_experience" -> 5 [] p = "fill_technical_skills" -> 6
      [] p = "save" -> 7 [] p = "done" -> 8 [] p = "failed" -> 8
      [] OTHER -> 0

Parsing == pc \in {"completion", "sleep"}

(***************************************************************************)
(* C26: parse_resume_with_llm makes at most 3 inference calls; a further   *)
(* call is made only after a call that raised, never after a response      *)
(* that is no JSON, which gives the error value at once; it always returns *)
(* and what it returns is the parsed record or the error value; generate   *)
(* then takes its stages in order, each once, none a second time.          *)
(***************************************************************************)
RetriesOnlyAtInference ==
    /\ [](entry = "parse_resume_with_llm" =>
            /\ call.calls <= max_retries
            /\ \A k \in 1..(call.calls - 1) : call.responses[k] = "raises"
            /\ (~Parsing /\ call.error) =>
                  /\ resume_data = ErrorResult /\ pc = "returned"
                  /\ call.responses[call.calls] # "json"
                  /\ call.responses[call.calls] = "raises" => call.calls = max_retries
            /\ (~Parsing /\ ~call.error) =>
                  /\ resume_data = call.record
                  /\ call.responses[call.calls] = "json")
    /\ [][(StageNumber(pc) > 0) =>
             /\ StageNumber(pc') > StageNumber(pc)
             /\ (pc' # "failed" => StageNumber(pc') = StageNumber(pc) + 1)
             /\ call' = call]_vars
    /\ <>(~Parsing)

\* C26 happens: two calls raised, the third gave the record, and generate
\* has finished on it
RetriesOnlyAtInferenceSeen ==
    /\ entry = "parse_resume_with_llm"
    /\ Finished
    /\ call.calls = 3
    /\ call.responses = <<"raises", "raises", "json">>
    /\ resume_data = call.record

(***************************************************************************)
(* C27: after fill_education on a list with no Bachelor entry the 8 data   *)
(* cells of the primary block (rows 14-20) hold the placeholder with the   *)
(* highlight; on a list with neither a Master nor a Doctorate entry every  *)
(* cell of rows 22-29 is as the template has it.                           *)
(***************************************************************************)
MissingTierAsymmetry ==
    AfterEducation =>
        /\ BachelorIdx = 0 =>
              \A n \in 1..Len(EduFields) :
                 LET cell == cells[13 + EduFields[n][1]][EduFields[n][2]]
                 IN  cell.value = PLACEHOLDER /\ FullyHighlighted(cell)
        /\ (~HasMaster /\ ~HasDoctorate) =>
              \A r \in 22..29 : cells[r] = Template[r]

\* C27 happens: the education stage has run on a list with none of the three
\* tiers; B14 turned into a highlighted placeholder and B23 kept its text
MissingTierAsymmetrySeen ==
    /\ AfterEducation
    /\ BachelorIdx = 0 /\ ~HasMaster /\ ~HasDoctorate
    /\ Template[14][2].value # PLACEHOLDER
    /\ cells[14][2].value = PLACEHOLDER
    /\ FullyHighlighted(cells[14][2])
    /\ cells[23][2].value = Template[23][2].value
    /\ cells[23][2].value # PLACEHOLDER

(***************************************************************************)
(* license_manager.py: the licence row of the remote table, and threads    *)
(* that call consume_quota on it.  The row is in call.licence, the calls   *)
(* in batch; a call reads the row in validate_license (one GET) and        *)
(* writes the absolute new value later (one PATCH).                        *)
(***************************************************************************)
MaxQuota == 3
MaxAmount == 2
NumCallers == 2

\* what _supabase_request can come back with
RequestResults == {"200", "http_error", "connection_error", "timeout"}

\* a request that timed out was sent; the server may have carried it out
ServerApplied(result) ==
    CASE result = "200" -> {TRUE}
      [] result = "timeout" -> BOOLEAN
      [] OTHER -> {FALSE}

LicenceRows ==
    { [is_active |-> a, expired |-> e, is_unlimited |-> u,
       used_quota |-> used, total_quota |-> total] :
         a \in BOOLEAN, e \in BOOLEAN, u \in BOOLEAN,
         used \in 0..MaxQuota, total \in 0..MaxQuota }

validate_license(row, result) ==
    IF result # "200" THEN [valid |-> FALSE, message |-> "request"]
    ELSE IF ~row.is_active THEN [valid |-> FALSE, message |-> "invalid"]
    ELSE IF row.expired THEN [valid |-> FALSE, message |-> "expired"]
    ELSE IF ~row.is_unlimited /\ row.used_quota >= row.total_quota
         THEN [valid |-> FALSE, message |-> "exhausted"]
    ELSE [valid |-> TRUE, message |-> "valid"]

InitQuota ==
    /\ Loaded
    /\ pc = "quota"
    /\ resume_data = ErrorResult
    /\ entry = "consume_quota"
    /\ outcome = "pending"
    /\ \E row \in LicenceRows :
         /\ row.used_quota <= row.total_quota
         /\ call = [op |-> "consume_quota", licence |-> row,
                    initial_used |-> row.used_quota]
    /\ \E amounts \in [1..NumCallers -> 1..MaxAmount] :
         batch = [i \in 1..NumCallers |->
                    [amount |-> amounts[i], at |-> "validate", new_used |-> 0,
                     success |-> "pending", message |-> "none"]]

Unchanged_but_quota ==
    UNCHANGED <<cells, merged_cells, row_offset, raised, saved, resume_data,
                entry, outcome, pc>>

\* consume_quota up to the PATCH: validate_license, the unlimited return,
\* new_used and the insufficient-quota return
Validate(i) ==
    /\ batch[i].at = "validate"
    /\ \E result \in RequestResults :
         LET row == call.licence
             validation == validate_license(row, result)
             new_used == row.used_quota + batch[i].amount
             remaining == row.total_quota - new_used
         IN  batch' =
               [batch EXCEPT ![i] =
                  IF ~validation.valid
                  THEN [@ EXCEPT !.at = "returned", !.success = "false",
                                 !.message = validation.message]
                  ELSE IF row.is_unlimited
                  THEN [@ EXCEPT !.at = "returned", !.success = "true",
                                 !.message = "unlimited"]
                  ELSE IF remaining < 0
                  THEN [@ EXCEPT !.at = "returned", !.success = "false",
                                 !.message = "insufficient"]
                  ELSE [@ EXCEPT !.at = "patch", !.new_used = new_used]]
    /\ call' = call
    /\ Unchanged_but_quota

\* the PATCH of used_quota to new_used, and the two returns after it
Patch(i) ==
    /\ batch[i].at = "patch"
    /\ \E result \in RequestResults :
       \E applied \in ServerApplied(result) :
         /\ call' = IF applied
                    THEN [call EXCEPT !.licence.used_quota = batch[i].new_used]
                    ELSE call
         /\ batch' = [batch EXCEPT ![i] =
                        IF result = "200"
                        THEN [@ EXCEPT !.at = "returned", !.success = "true",
                                       !.message = "consumed"]
                        ELSE [@ EXCEPT !.at = "returned", !.success = "false",
                                       !.message = result]]
    /\ Unchanged_but_quota

NextQuota == \E i \in 1..NumCallers : Validate(i) \/ Patch(i)

SpecQuota == InitQuota /\ [][NextQuota]_vars

Returns(i, value) ==
    /\ i \in DOMAIN batch
    /\ i \in DOMAIN batch'
    /\ batch[i].success = "pending"
    /\ batch'[i].success = value

(***************************************************************************)
(* C28: on a limited licence no step of a consume_quota call stores a      *)
(* used_quota above total_quota; the step in which a call returns          *)
(* success: false leaves used_quota as it was; on an unlimited licence no  *)
(* step changes used_quota.                                                *)
(***************************************************************************)
QuotaNeverOverdrawn ==
    [][ /\ ~call.licence.is_unlimited =>
              call'.licence.used_quota <= call'.licence.total_quota
        /\ (\E i \in 1..NumCallers : Returns(i, "false")) =>
              call'.licence.used_quota = call.licence.used_quota
        /\ call.licence.is_unlimited =>
              call'.licence.used_quota = call.licence.used_quota ]_vars

RECURSIVE AmountsReturning(_, _)
AmountsReturning(n, value) ==
    IF n = 0 THEN 0
    ELSE AmountsReturning(n - 1, value)
         + (IF batch[n].success = value THEN batch[n].amount ELSE 0)

AllReturned == \A i \in 1..NumCallers : batch[i].at = "returned"

(***************************************************************************)
(* C29: on a limited licence, once every concurrent consume_quota call has *)
(* returned, used_quota has grown by the sum of the amounts of the calls   *)
(* that returned success, and that sum never exceeds total_quota minus the *)
(* initial used_quota.                                                     *)
(***************************************************************************)
ConsumedEqualsAuthorised ==
    ~call.licence.is_unlimited =>
        /\ AllReturned =>
              call.licence.used_quota - call.initial_used
                 = AmountsReturning(NumCallers, "true")
        /\ AmountsReturning(NumCallers, "true")
              <= call.licence.total_quota - call.initial_used

(***************************************************************************)
(* desktop_app.py: /api/process requests served by concurrent threads      *)
(* (app.run(..., threaded=True)) over the global tasks store.  The tasks   *)
(* are in batch, the requests in call.requests; submitted and deducted     *)
(* count, per task, the process_single_task runs and the quota deductions  *)
(* that included it.                                                       *)
(***************************************************************************)
NumTasks == 2
NumRequests == 2

\* get_local_license() and consume_quota(license_code, num_tasks)
QuotaResults == {"no_licence", "success", "failure"}

InitRequests ==
    /\ Loaded
    /\ pc = "serving"
    /\ resume_data = ErrorResult
    /\ entry = "process_files"
    /\ outcome = "pending"
    /\ batch = [i \in 1..NumTasks |->
                  [status |-> "pending", submitted |-> 0, deducted |-> 0]]
    /\ call = [op |-> "process_files",
               requests |-> [r \in 1..NumRequests |->
                               [at |-> "filter", pending_tasks |-> {},
                                running |-> {}, finished |-> {}]]]

Unchanged_but_requests ==
    UNCHANGED <<cells, merged_cells, row_offset, raised, saved, resume_data,
                entry, outcome, pc>>

\* pending_tasks = [t for t in tasks.values() if t['task'].status == 'pending'],
\* and the 400 return when there is none
Filter(r) ==
    /\ call.requests[r].at = "filter"
    /\ LET pending_tasks == {i \in 1..NumTasks : batch[i].status = "pending"}
       IN  call' = [call EXCEPT !.requests[r] =
                      IF pending_tasks = {}
                      THEN [@ EXCEPT !.at = "returned"]
                      ELSE [@ EXCEPT !.at = "mark",
                                     !.pending_tasks = pending_tasks]]
    /\ batch' = batch
    /\ Unchanged_but_requests

\* the loop that sets status = 'processing', and thread.start()
Mark(r) ==
    /\ call.requests[r].at = "mark"
    /\ batch' = [i \in 1..NumTasks |->
                   IF i \in call.requests[r].pending_tasks
                   THEN [batch[i] EXCEPT !.status = "processing"]
                   ELSE batch[i]]
    /\ call' = [call EXCEPT !.requests[r].at = "quota"]
    /\ Unchanged_but_requests

\* process_all_parallel up to the pool: one deduction of num_tasks for the
\* whole list, or every task of the list marked 'error'
Quota(r) ==
    /\ call.requests[r].at = "quota"
    /\ \E result \in QuotaResults :
         /\ batch' = [i \in 1..NumTasks |->
                        IF i \notin call.requests[r].pending_tasks THEN batch[i]
                        ELSE CASE result = "failure" ->
                                    [batch[i] EXCEPT !.status = "error"]
                               [] result = "success" ->
                                    [batch[i] EXCEPT !.deducted = @ + 1]
                               [] OTHER -> batch[i]]
         /\ call' = [call EXCEPT !.requests[r].at =
                        IF result = "failure" THEN "returned" ELSE "pool"]
    /\ Unchanged_but_requests

\* a worker of the request's pool starts process_single_task(item, ...)
Start(r, i) ==
    /\ call.requests[r].at = "pool"
    /\ i \in call.requests[r].pending_tasks
    /\ i \notin call.requests[r].running \cup call.requests[r].finished
    /\ Cardinality(call.requests[r].running) < MAX_PARALLEL_WORKERS
    /\ batch' = [batch EXCEPT ![i].submitted = @ + 1]
    /\ call' = [call EXCEPT !.requests[r].running = @ \cup {i}]
    /\ Unchanged_but_requests

\* process_single_task reaches task.status = 'completed', or its except
\* clause sets task.status = 'error'
End(r, i) ==
    /\ call.requests[r].at = "pool"
    /\ i \in call.requests[r].running
    /\ \E status \in {"completed", "error"} :
         batch' = [batch EXCEPT ![i].status = status]
    /\ call' = [call EXCEPT !.requests[r].running = @ \ {i},
                            !.requests[r].finished = @ \cup {i}]
    /\ Unchanged_but_requests

\* the with block ends when every future is done
PoolDone(r) ==
    /\ call.requests[r].at = "pool"
    /\ call.requests[r].finished = call.requests[r].pending_tasks
    /\ call' = [call EXCEPT !.requests[r].at = "returned"]
    /\ batch' = batch
    /\ Unchanged_but_requests

NextRequests ==
    \E r \in 1..NumRequests :
       \/ Filter(r)
       \/ Mark(r)
       \/ Quota(r)
       \/ \E i \in 1..NumTasks : Start(r, i) \/ End(r, i)
       \/ PoolDone(r)

SpecRequests == InitRequests /\ [][NextRequests]_vars

StatusMoves ==
    { <<"pending", "processing">>, <<"processing", "completed">>,
      <<"processing", "error">> }

(***************************************************************************)
(* C30: under concurrent /api/process requests no step brings a task to a  *)
(* second process_single_task run or into a second quota deduction, and    *)
(* every change of a task's status is pending -> processing, processing -> *)
(* completed or processing -> error (so completed and error are final).    *)
(***************************************************************************)
TaskProcessedOnce ==
    [][ \A i \in 1..NumTasks :
           /\ batch'[i].submitted <= 1
           /\ batch'[i].deducted <= 1
           /\ \/ batch'[i].status = batch[i].status
              \/ <<batch[i].status, batch'[i].status>> \in StatusMoves ]_vars

====
